---- MODULE Spec2Model ----
(***************************************************************************)
(* Model of the Kobo -> Ticket synchronisation engine                      *)
(* (src/kobo_connect/synchronizer.py) and of its admin caller              *)
(* (src/kobo_connect/admin.py).                                            *)
(*                                                                         *)
(* Spec: start_sync and sync_one on one form.  FairSpec: the runs of       *)
(* start_sync on a well-configured form, with fairness.  BulkSpec:         *)
(* start_sync on two forms at once and sync_all_kobo_forms.  ResolverSpec: *)
(* the label resolver of select questions.  HelperSpec: one call of one    *)
(* of the helper functions of the engine (_build_mapping, _apply_mapping,  *)
(* _find_existing_ticket, _infer_priority, _maybe_set_resolved,            *)
(* _save_log), its arguments drawn from bounded sets.  SchemaSpec:         *)
(* start_sync and sync_one on a form with a select question, whose schema  *)
(* fetch succeeds or fails.  LocationSpec: start_sync and sync_one with    *)
(* the location module installed and submissions that carry location       *)
(* codes and names.  TimestampSpec: start_sync on submissions whose        *)
(* timestamp keys are missing, unparsable or parsable.  PagerSpec: the     *)
(* generator KoboClient.iter_submissions over a paged listing.             *)
(*                                                                         *)
(* Encoding.  An optional value (Python None / a missing key) is the empty *)
(* tuple << >>, a present value v is the one-element tuple <<v>>.  A text  *)
(* value is a tuple of one-character strings, so that str.strip() is a     *)
(* computation.  A timestamp is an integer number of clock ticks; a raw    *)
(* timestamp string of a submission is [iso, t]: iso says whether          *)
(* parse_datetime accepts it, t is the instant it denotes.                 *)
(*                                                                         *)
(* Deployment modelled: the Ticket model has the fields code, title,       *)
(* attending_staff and location (relations), date_of_incident,             *)
(* max_escalation_level and due_date and none of kobo_uuid, instance_id,   *)
(* submitted_at, source.  The variable locations is None when no Location  *)
(* collaborator is installed (Location = None, synchronizer.py:155), as    *)
(* under every specification but LocationSpec, and the table of the        *)
(* locations otherwise.  Under Spec, FairSpec and BulkSpec the             *)
(* submissions carry no category and the tickets no resolution, so that    *)
(* _infer_priority and _maybe_set_resolved leave the record alone, and     *)
(* the mapped questions are not select questions, so that resolve_label    *)
(* returns the raw value; the schema fetch of the form succeeds            *)
(* (form.schema = "ok").                                                   *)
(***************************************************************************)
EXTENDS Integers, Sequences, FiniteSets, TLC

\* ------------------------------------------------------------------ bounds
\* Latest submission timestamp; the clock starts there.
MaxTime == 3
\* Largest number of submissions the remote form holds.
MaxRows == 2
\* Largest number of start_sync / sync_one invocations in one behaviour.
MaxCalls == 2
\* PAGE_SIZE of the client (1000 in the source), scaled down.
PageSize == 1
\* Clock ticks per minute (resolution of the modelled timestamps).
TicksPerMinute == 2
\* Number of ticks the clock advances after the initial instant.
MaxElapsed == 1

\* ------------------------------------------------------- program constants
BACKOFF_MINUTES == 1

None == << >>
Some(v) == <<v>>

\* ------------------------------------------------------------------ state
VARIABLES
    now,        \* timezone.now()
    form,       \* the KoboForm: its configuration and its last_sync_date
    mappings,   \* the KoboFieldMapping rows of the form
    remote,     \* the submissions of the remote form, in the order it lists them
    tickets,    \* the persisted Ticket records, at index pk
    logs,       \* the KoboSyncLog entries of the form, oldest first
    pc,         \* "idle", or "collecting" while start_sync is in its loop
    run,        \* the locals of the start_sync in progress
    calls,      \* number of start_sync / sync_one invocations so far
    last,       \* how the latest start_sync invocation ended
    prev,       \* how the one before it ended
    ret         \* what the latest sync_one returned or raised

\* The forms of the installation, for sync_all_kobo_forms and for start_sync
\* called on several forms at once.
VARIABLES
    forms,      \* the KoboForm rows, in the order KoboForm.objects.all() lists them
    forms0,     \* the forms as they were initially
    remotes,    \* the submissions of the remote form of each
    flogs,      \* the KoboSyncLog entries of each form, oldest first
    runs,       \* the start_sync call on each form: its position and its locals
    job         \* sync_all_kobo_forms: its position in the loop over the forms

\* A call of the label resolver built by _build_choice_resolver.
VARIABLES
    asked,      \* its arguments
    resolved    \* its result, None before it returns

\* A call of one of the helper functions of the synchroniser.
VARIABLES
    invoked,    \* the function called and its arguments
    returned    \* its result, None before it returns

\* The location module of the deployment.
VARIABLES
    locations   \* None if it is not installed, else its Location rows in pk order

\* ------------------------------------------------------------------- text
RECURSIVE LStrip(_)
LStrip(s) == IF s # << >> /\ Head(s) = " " THEN LStrip(Tail(s)) ELSE s

RECURSIVE RStrip(_)
RStrip(s) == IF s # << >> /\ s[Len(s)] = " " THEN RStrip(SubSeq(s, 1, Len(s) - 1)) ELSE s

\* str.strip()
Strip(s) == RStrip(LStrip(s))

\* str.lower(), on the letters the texts of the model are written with
Lower(s) ==
    [k \in 1..Len(s) |->
        CASE s[k] = "O" -> "o" [] s[k] = "U" -> "u" [] s[k] = "I" -> "i"
          [] s[k] = "N" -> "n" [] s[k] = "Y" -> "y" [] s[k] = "S" -> "s"
          [] s[k] = "C" -> "c" [] s[k] = "E" -> "e" [] s[k] = "H" -> "h"
          [] s[k] = "A" -> "a" [] s[k] = "G" -> "g" [] OTHER -> s[k]]

\* k in v_norm
Contains(v_norm, k) ==
    \E i \in 1..(Len(v_norm) - Len(k) + 1) : SubSeq(v_norm, i, i + Len(k) - 1) = k

\* ----------------------------------------------------------------- labels
\* The resolver _build_choice_resolver returns for a form with one select
\* question, "color", of choice list "colors" = {a: Alpha, b: Beta,
\* 1: One}.  A text is a tuple of characters; " " stands for every
\* whitespace character.
field_to_list(leaf) == IF leaf = "color" THEN Some("colors") ELSE None

\* The codes of the choice list "colors" (the keys of lut).
LutHas(c) == c \in {<<"a">>, <<"b">>, <<"1">>}

\* lut.get(str(c), c) for the list "colors" and a code that is a string
LutGet(c) ==
    IF c = <<"a">> THEN <<"A", "l", "p", "h", "a">>
    ELSE IF c = <<"b">> THEN <<"B", "e", "t", "a">>
    ELSE IF c = <<"1">> THEN <<"O", "n", "e">>
    ELSE c

\* str(n) of a one-digit number
Str(n) == << CASE n = 0 -> "0" [] n = 1 -> "1" [] n = 2 -> "2" [] OTHER -> "9" >>

\* Mutant of Separators: a comma does not separate codes.
Separators_SpaceOnly == {" "}

\* The characters the pattern [,\s]+ of line 115 matches.
Separators == {",", " "}

\* re.split(r"[,\s]+", s): the pieces of s between the maximal runs of
\* separators, an empty piece before a leading and after a trailing run.
RECURSIVE ReSplit(_, _, _)
ReSplit(s, piece, in_run) ==
    IF s = << >> THEN <<piece>>
    ELSE IF Head(s) \in Separators
         THEN IF in_run THEN ReSplit(Tail(s), piece, TRUE)
              ELSE <<piece>> \o ReSplit(Tail(s), << >>, TRUE)
         ELSE ReSplit(Tail(s), Append(piece, Head(s)), FALSE)

\* [c for c in codes if c]
NonEmpty(piece) == piece # << >>

\* A Python value with its type: "str" (a text), "list" (of texts), "int",
\* "bool".
Val(kind, v) == [kind |-> kind, v |-> v]

\* resolve(kobo_key, raw_val) (lines 105-122); kobo_key is the path of the
\* question, split on "/"; kind is the type of raw_val: "list" (of codes),
\* "str", or "int" for a value that is neither.  field_to_list does not
\* record whether the question is a select_one or a select_multiple.
resolve(kobo_key, kind, raw_val) ==
    LET leaf == kobo_key[Len(kobo_key)]
        ln == field_to_list(leaf)
        codes == IF kind = "list" THEN raw_val
                 ELSE SelectSeq(ReSplit(Strip(raw_val), << >>, FALSE), NonEmpty)
    IN IF ln = None THEN Val(kind, raw_val)
       ELSE IF kind \in {"list", "str"}
       THEN Val("list", [k \in 1..Len(codes) |-> LutGet(codes[k])])
       ELSE IF LutHas(Str(raw_val)) THEN Val("str", LutGet(Str(raw_val)))
       ELSE Val(kind, raw_val)

\* ------------------------------------------------------------- timestamps
\* _parse_ts: None for a missing/empty value or a string parse_datetime rejects.
_parse_ts(value) ==
    IF value = None THEN None
    ELSE IF value[1].iso THEN Some(value[1].t) ELSE None

\* Mutant of RawSubmissionTime: the first of the three that parses is taken.
RawSubmissionTime_FirstParsable(row) ==
    IF row.submission_time # None /\ row.submission_time[1].iso THEN row.submission_time
    ELSE IF row.end # None /\ row.end[1].iso THEN row.end
    ELSE row.start

\* row.get("_submission_time") or row.get("end") or row.get("start")
RawSubmissionTime(row) ==
    IF row.submission_time # None THEN row.submission_time
    ELSE IF row.end # None THEN row.end
    ELSE row.start

SubTs(row) == _parse_ts(RawSubmissionTime(row))

\* datetime.date(): the day an instant falls in.
DateOf(t) == t \div (TicksPerMinute * 1440)

\* timedelta(minutes=BACKOFF_MINUTES)
Backoff == BACKOFF_MINUTES * TicksPerMinute

\* Mutant of EffectiveSince: the backoff margin is forgotten.
EffectiveSince_NoBackoff(since, last_sync_date) ==
    IF since # None THEN since ELSE last_sync_date

\* _since of start_sync (lines 559-561): the override, else the watermark,
\* less the backoff; None when there is neither.
EffectiveSince(since, last_sync_date) ==
    LET s == IF since # None THEN since ELSE last_sync_date
    IN IF s # None THEN Some(s[1] - Backoff) ELSE None

\* ---------------------------------------------------------------- mapping
\* The KoboFieldMapping rows of the form, in configuration order: the
\* business code, and two remote fields mapped onto the title (a submission
\* that lacks "subject2" is mapped as if only the first were configured, one
\* that lacks "ref" as if no code mapping were).
MappingConfigs ==
    { << [kobo_field |-> "ref", grievance_field |-> "code"],
         [kobo_field |-> "subject", grievance_field |-> "title"],
         [kobo_field |-> "subject2", grievance_field |-> "title"] >> }

\* target.startswith("json_ext"), on the targets the configurations use.
StartsWithJsonExt(target) ==
    target \in {"json_ext", "json_ext.note", "json_ext.responsable_plainte"}

\* (name or "").strip(), on the names the configurations use: " " is a name
\* of whitespace only.
StripName(name) == IF name = " " THEN "" ELSE name

\* direct_map[source] = target: a dict keeps the position of the first
\* insertion of a key and the value of the last.
DictPut(dm, source, target) ==
    IF \E i \in 1..Len(dm) : dm[i][1] = source
    THEN [i \in 1..Len(dm) |-> IF dm[i][1] = source THEN <<source, target>> ELSE dm[i]]
    ELSE Append(dm, <<source, target>>)

RECURSIVE BuildFrom(_, _, _, _)
BuildFrom(ms, i, direct, extras) ==
    IF i > Len(ms) THEN [direct |-> direct, extras |-> extras]
    ELSE LET source == StripName(ms[i].kobo_field)
             target == StripName(ms[i].grievance_field)
         IN IF source = "" \/ target = "" THEN BuildFrom(ms, i + 1, direct, extras)
            ELSE IF StartsWithJsonExt(target)
                 THEN BuildFrom(ms, i + 1, direct, Append(extras, <<source, target>>))
                 ELSE BuildFrom(ms, i + 1, DictPut(direct, source, target), extras)

\* _build_mapping: (direct_map, extras_map)
_build_mapping(ms) == BuildFrom(ms, 1, << >>, << >>)

\* ----------------------------------------------------------------- ticket
\* Ticket(): an unsaved record, pk 0 standing for "no primary key".
NewTicket ==
    [pk |-> 0, code |-> None, title |-> None, attending_staff |-> None,
     location |-> None,
     date_of_incident |-> None, max_escalation_level |-> None, due_date |-> FALSE]

\* The CharFields of the record a direct mapping may target.
AssignableFields == {"code", "title"}

\* _assign_if_changed on an optional text field: (record, changed)
_assign_if_changed(ticket, field_name, new_value) ==
    IF ticket[field_name] # new_value
    THEN [ticket |-> [ticket EXCEPT ![field_name] = new_value], changed |-> TRUE]
    ELSE [ticket |-> ticket, changed |-> FALSE]

\* Ticket.objects.filter(code=ref_value).first(): the lowest matching pk, 0 if none.
FirstByCode(tks, ref_value) ==
    LET hits == {i \in 1..Len(tks) : tks[i].code = Some(ref_value)}
    IN IF hits = {} THEN 0 ELSE CHOOSE i \in hits : \A j \in hits : i <= j

\* The lookup value of _find_existing_ticket: the row's value under the first
\* direct mapping that targets "code" and whose key the row carries.
RefValue(row, direct_map) ==
    LET idx == {i \in 1..Len(direct_map) :
                   direct_map[i][2] = "code" /\ row[direct_map[i][1]] # None}
    IN IF idx = {} THEN None
       ELSE row[direct_map[CHOOSE i \in idx : \A j \in idx : i <= j][1]]

\* The fields of the Ticket model of the deployment.
TicketFields ==
    {"code", "title", "attending_staff", "location", "date_of_incident",
     "max_escalation_level", "due_date"}

\* Those of them that are relations to another model (foreign keys).
RelationalFields == {"attending_staff", "location"}

\* Ticket.objects.filter(**{field: value}).first(): the lowest matching pk,
\* 0 if none.
FirstBy(tks, field, value) ==
    LET hits == {i \in 1..Len(tks) : tks[i][field] = Some(value)}
    IN IF hits = {} THEN 0 ELSE CHOOSE i \in hits : \A j \in hits : i <= j

\* Mutant of Candidates: the instance ID is tried before the UUID.
Candidates_InstanceFirst(fields, row) ==
    (IF "instance_id" \in fields /\ row["meta/instanceID"] # None
     THEN << <<"instance_id", row["meta/instanceID"][1]>> >> ELSE << >>)
    \o (IF "kobo_uuid" \in fields /\ row["_uuid"] # None
        THEN << <<"kobo_uuid", row["_uuid"][1]>> >> ELSE << >>)

\* candidates (lines 453-457), for a Ticket model with the given fields
Candidates(fields, row) ==
    (IF "kobo_uuid" \in fields /\ row["_uuid"] # None
     THEN << <<"kobo_uuid", row["_uuid"][1]>> >> ELSE << >>)
    \o (IF "instance_id" \in fields /\ row["meta/instanceID"] # None
        THEN << <<"instance_id", row["meta/instanceID"][1]>> >> ELSE << >>)

\* The loop over the candidates (lines 459-465): the first that finds a record.
RECURSIVE FirstCandidate(_, _, _)
FirstCandidate(tks, candidates, i) ==
    IF i > Len(candidates) THEN 0
    ELSE LET obj == FirstBy(tks, candidates[i][1], candidates[i][2])
         IN IF obj # 0 THEN obj ELSE FirstCandidate(tks, candidates, i + 1)

\* Mutant of FindTicket: the Kobo identifiers are tried before the code.
FindTicket_MetadataFirst(fields, row, direct_map, tks) ==
    LET ref == RefValue(row, direct_map)
        by_code == IF ref # None /\ ref[1] # << >> THEN FirstByCode(tks, ref[1]) ELSE 0
        by_meta == FirstCandidate(tks, Candidates(fields, row), 1)
    IN IF by_meta # 0 THEN by_meta ELSE by_code

\* _find_existing_ticket (lines 438-466) for a Ticket model with the given
\* fields: the pk of the record found, 0 for None.  The code lookup uses the
\* raw row value; an empty value is not looked up.
FindTicket(fields, row, direct_map, tks) ==
    LET ref == RefValue(row, direct_map)
        by_code == IF ref # None /\ ref[1] # << >> THEN FirstByCode(tks, ref[1]) ELSE 0
    IN IF by_code # 0 THEN by_code
       ELSE FirstCandidate(tks, Candidates(fields, row), 1)

\* _find_existing_ticket on the Ticket model of the deployment
_find_existing_ticket(row, direct_map, tks) == FindTicket(TicketFields, row, direct_map, tks)

\* ", ".join(map(str, val))
RECURSIVE Join(_)
Join(val) ==
    IF val = << >> THEN << >>
    ELSE IF Len(val) = 1 THEN val[1]
    ELSE val[1] \o <<",", " ">> \o Join(Tail(val))

\* Mutant of IsRelational: no target is taken for a relation.
IsRelational_Never(model_field) == FALSE

\* getattr(getattr(field_obj, "remote_field", None), "model", None) is not None
IsRelational(model_field) == model_field \in RelationalFields

\* The value of one direct mapping: the label(s) of the raw value if a
\* resolver is given (lines 493-494), else the raw value.
Resolved(kobo_key, raw, with_labels) ==
    IF with_labels THEN resolve(<<kobo_key>>, "str", raw) ELSE Val("str", raw)

\* Lines 497-503: a list is joined with ", " for a CharField.
Coerced(val, model_field) ==
    IF val.kind = "list" /\ model_field \in AssignableFields THEN Join(val.v) ELSE val.v

\* One (changed so far, _assign_if_changed result) pair folded into the
\* running result of the loop (line 512).
Folded(a, changed) == [ticket |-> a.ticket, changed |-> changed \/ a.changed]

\* One iteration of the loop over direct_map (lines 488-512) on the running
\* result acc = [ticket, changed].
ApplyOne(row, kobo_key, model_field, acc, with_labels) ==
    IF row[kobo_key] = None \/ model_field \notin TicketFields
    THEN acc
    ELSE IF IsRelational(model_field)
         THEN acc
         ELSE Folded(_assign_if_changed(acc.ticket, model_field,
                         Some(Strip(Coerced(Resolved(kobo_key, row[kobo_key][1], with_labels),
                                            model_field)))),
                     acc.changed)

RECURSIVE ApplyDirect(_, _, _, _, _, _)
\* The loop over direct_map of _apply_mapping (lines 488-512) continued after
\* iteration i gave the running result acc.
ApplyRest(row, direct_map, i, acc, with_labels) ==
    ApplyDirect(row, direct_map, i + 1, acc.ticket, acc.changed, with_labels)

\* The direct-field loop of _apply_mapping (lines 483-512) from mapping i on;
\* with_labels: resolve_label is not None.  The row's values are strings and
\* no mapping targets a date field.
ApplyDirect(row, direct_map, i, ticket, changed, with_labels) ==
    IF i > Len(direct_map) THEN [ticket |-> ticket, changed |-> changed]
    ELSE ApplyRest(row, direct_map, i,
                   ApplyOne(row, direct_map[i][1], direct_map[i][2],
                            [ticket |-> ticket, changed |-> changed], with_labels),
                   with_labels)

\* Mutant of SchemaFetchRaises: the exception of the schema request leaves
\* the function.
SchemaFetchRaises_Propagates(schema) == schema = "fails"

\* try: resolve_label = _build_choice_resolver(...) except Exception (lines
\* 550-554, 710-714): whether the request for the schema of the form, which
\* its server answers ("ok") or not ("fails"), makes the function raise.
SchemaFetchRaises(schema) == FALSE

\* Mutant of resolve_label: the labels are resolved whatever the request for
\* the schema gave.
resolve_label_Always == Some("resolve")

\* resolve_label of start_sync and sync_one (lines 550-554, 710-714): the
\* resolver of the form, None if its schema could not be fetched.
resolve_label == IF form.schema = "ok" THEN Some("resolve") ELSE None

\* _apply_mapping of a form without extras mappings (json_ext stays as it
\* is), as start_sync and sync_one call it.
_apply_mapping(row, direct_map, ticket) ==
    ApplyDirect(row, direct_map, 1, ticket, FALSE, resolve_label # None)

\* _infer_incident_date: the day of "start" if it parses, else of sub_ts.
_infer_incident_date(row, fallback_dt) ==
    LET dt == _parse_ts(row.start)
    IN IF dt # None THEN Some(DateOf(dt[1]))
       ELSE IF fallback_dt # None THEN Some(DateOf(fallback_dt[1])) ELSE None

\* if v: a key the row has, with a value that is not empty.
Truthy(v) == v # None /\ v[1] # << >>

\* The keys _resolve_location_from_row reads, in the order it reads them
\* (lines 329-334, 341-346), of which the form has two codes and one name.
code_keys == <<"district_code", "region_code">>
name_keys == <<"district">>

\* Location.objects.filter(code=str(v)).first(): its pk, 0 if there is none.
FirstLocationByCode(table, v) ==
    LET S == {i \in 1..Len(table) : table[i].code = v}
    IN IF S = {} THEN 0 ELSE CHOOSE i \in S : \A j \in S : i <= j

\* Location.objects.filter(name__iexact=str(v)).first()
FirstLocationByName(table, v) ==
    LET S == {i \in 1..Len(table) : Lower(table[i].name) = Lower(v)}
    IN IF S = {} THEN 0 ELSE CHOOSE i \in S : \A j \in S : i <= j

\* The loop over name_keys (lines 347-352) from key i on.
RECURSIVE ByNameKeys(_, _, _)
ByNameKeys(row, table, i) ==
    IF i > Len(name_keys) THEN None
    ELSE IF Truthy(row[name_keys[i]]) /\ FirstLocationByName(table, row[name_keys[i]][1]) # 0
    THEN Some(FirstLocationByName(table, row[name_keys[i]][1]))
    ELSE ByNameKeys(row, table, i + 1)

\* The loop over code_keys (lines 335-340) from key i on, then the names.
RECURSIVE ByCodeKeys(_, _, _)
ByCodeKeys(row, table, i) ==
    IF i > Len(code_keys) THEN ByNameKeys(row, table, 1)
    ELSE IF Truthy(row[code_keys[i]]) /\ FirstLocationByCode(table, row[code_keys[i]][1]) # 0
    THEN Some(FirstLocationByCode(table, row[code_keys[i]][1]))
    ELSE ByCodeKeys(row, table, i + 1)

\* _resolve_location_from_row (lines 322-355): the Location of the row (its
\* pk), None if the module is not installed or no key of the row names one.
_resolve_location_from_row(row) ==
    IF locations = None THEN None ELSE ByCodeKeys(row, locations[1], 1)

\* if loc is not None and hasattr(ticket, "location"):
\*     _assign_if_changed(ticket, "location", loc)        (lines 584-586, 727-729)
\* What _assign_if_changed returns is dropped: the flag of the transaction is
\* set from _apply_mapping on.
Located(ticket, loc) ==
    IF loc # None
    THEN [ticket |-> _assign_if_changed(ticket, "location", loc).ticket, changed |-> FALSE]
    ELSE [ticket |-> ticket, changed |-> FALSE]

\* _find_existing_ticket(row, direct_map) or Ticket()
FoundOrNew(pk, tks) == IF pk = 0 THEN NewTicket ELSE tks[pk]

\* Lines 604-607 (746-749): the date of the incident assigned to the mapped
\* record m = [ticket, changed].
Dated(m, incident_date) ==
    IF incident_date # None
    THEN Folded(_assign_if_changed(m.ticket, "date_of_incident", incident_date), m.changed)
    ELSE m

\* json_ext, changed = _apply_mapping(...) (lines 588, 730) on the located
\* record l = [ticket, changed].
Mapped(row, direct_map, l) ==
    Folded(_apply_mapping(row, direct_map, l.ticket), l.changed)

\* The body of the per-submission transaction up to the dry_run test:
\* lookup, location, mapping, business rules.  (in-memory record, changed)
Prepare(row, direct_map, tks) ==
    Dated(Mapped(row, direct_map,
                 Located(FoundOrNew(_find_existing_ticket(row, direct_map, tks), tks),
                         _resolve_location_from_row(row))),
          _infer_incident_date(row, SubTs(row)))

\* ------------------------------------------------------------------- logs
\* Mutant of LogStatus: the status is stored as it is passed.
LogStatus_Verbatim(status) == status

\* _save_log's normalisation of the status.
LogStatus(status) ==
    IF status \in {"success", "failed"} THEN status
    ELSE IF status = "error" THEN "failed" ELSE "success"

\* The KoboSyncLog entry _save_log writes; details is the optional payload.
_save_log(status, action, details) ==
    [status |-> LogStatus(status), action |-> action, details |-> details]

\* ------------------------------------------------------------ persistence
\* ticket.save(user=user) of the case-record store.  "validation": the store
\* rejects the record built from this submission with a ValidationError
\* (row.fault); "no_changes": the ValidationError of a HistoryBusinessModel
\* saved with the field values it already has; "ok": the record is written.
SaveResult(tks, ticket, fault) ==
    IF fault = "validation" THEN "validation"
    ELSE IF ticket.pk # 0 /\ tks[ticket.pk] = ticket THEN "no_changes"
    ELSE "ok"

\* The table after a successful save of the record.
Persist(tks, ticket) ==
    IF ticket.pk = 0 THEN Append(tks, [ticket EXCEPT !.pk = Len(tks) + 1])
    ELSE [tks EXCEPT ![ticket.pk] = ticket]

\* Mutant of AtomicRollback: the writes of a block that raised are kept.
AtomicRollback_Lost(before, inside) == inside

\* with transaction.atomic(): the table left by a block that raised, given
\* the table before the block and the table the block had written.
AtomicRollback(before, inside) == before

\* Mutant of Decide: the record is saved whether or not anything changed.
Decide_AlwaysSaves(dry_run, is_create, changed) ==
    IF dry_run THEN "simulate" ELSE "save"

\* Mutant of Decide: the dry_run flag is ignored.
Decide_IgnoresDryRun(dry_run, is_create, changed) ==
    IF is_create \/ changed THEN "save" ELSE "skip"

\* The decision of lines 620-638 (761-788 in sync_one): a dry run saves
\* nothing; otherwise the record is saved only if it is new or changed.
Decide(dry_run, is_create, changed) ==
    IF dry_run THEN "simulate"
    ELSE IF is_create \/ changed THEN "save" ELSE "skip"

\* " ".join(map(str, ve.messages)) (line 642)
RECURSIVE JoinSpace(_)
JoinSpace(messages) ==
    IF messages = << >> THEN << >>
    ELSE IF Len(messages) = 1 THEN messages[1]
    ELSE messages[1] \o <<" ">> \o JoinSpace(Tail(messages))

\* The text of line 643.
NoChanges == <<"n", "o", " ", "c", "h", "a", "n", "g", "e", "s">>

\* Mutant of IsNoChanges: the messages are searched as they are written.
IsNoChanges_CaseSensitive(messages) == Contains(JoinSpace(messages), NoChanges)

\* "no changes" in msg.lower() (lines 642-643)
IsNoChanges(messages) == Contains(Lower(JoinSpace(messages)), NoChanges)

\* except ValidationError as ve (lines 640-648): the outcome of the
\* submission and the log entries written.
OnValidationError(messages, row) ==
    IF IsNoChanges(messages)
    THEN [outcome |-> "vacuous", logs |-> << >>]
    ELSE [outcome |-> "failed", logs |-> << _save_log("failed", "row_error", Some(row)) >>]

\* The messages of the ValidationError a save raised: the store rejects
\* the record, or (comment of line 641) HistoryBusinessModel finds no change.
Messages(saved) ==
    IF saved = "no_changes"
    THEN << <<"t", "h", "e", "r", "e", " ", "a", "r", "e", " ">> \o NoChanges >>
    ELSE << <<"i", "n", "v", "a", "l", "i", "d">> >>

\* The table and the outcome left by a transaction that raised a
\* ValidationError: the block is rolled back, then the handler runs.
Rejected(tks, handled) ==
    [tickets |-> AtomicRollback(tks, tks), outcome |-> handled.outcome, logs |-> handled.logs]

\* One pass of the body of the loop of start_sync over a submission:
\* the table, the outcome and the log entries it leaves.
\*   filtered   at or below the bound: skipped, nothing else done
\*   simulated  dry run: record built, nothing saved, nothing counted
\*   created / updated   saved
\*   unchanged  existing record, nothing changed: skipped without a save
\*   vacuous    the save raised the "no changes" ValidationError: skipped
\*   failed     the save or the escalation hook raised: row_error logged
RowStep(row, tks, since_, dry_run, direct_map) ==
    LET sub_ts == SubTs(row)
        p == Prepare(row, direct_map, tks)
        is_create == p.ticket.pk = 0
        ticket == [p.ticket EXCEPT !.max_escalation_level = Some(3)]
        saved == SaveResult(tks, ticket, row.fault)
        row_error == << _save_log("failed", "row_error", Some(row)) >>
    IN IF since_ # None /\ sub_ts # None /\ sub_ts[1] <= since_[1]
       THEN [tickets |-> tks, outcome |-> "filtered", logs |-> << >>]
       ELSE IF Decide(dry_run, is_create, p.changed) = "simulate"
       THEN [tickets |-> tks, outcome |-> "simulated", logs |-> << >>]
       ELSE IF Decide(dry_run, is_create, p.changed) = "skip"
       THEN [tickets |-> tks, outcome |-> "unchanged", logs |-> << >>]
       ELSE IF saved # "ok"
       THEN Rejected(tks, OnValidationError(Messages(saved), row))
       ELSE IF row.fault = "error"
       THEN [tickets |-> AtomicRollback(tks, Persist(tks, ticket)),
             outcome |-> "failed", logs |-> row_error]
       ELSE [tickets |-> Persist(tks, ticket),
             outcome |-> IF is_create THEN "created" ELSE "updated", logs |-> << >>]

\* Mutant of MaxTs: the timestamp of the latest processed row is kept, not the
\* greatest.
MaxTs_Latest(max_submission_ts, row, outcome) ==
    IF outcome # "filtered" /\ SubTs(row) # None THEN SubTs(row) ELSE max_submission_ts

\* max_submission_ts after the row (lines 576-577): untouched by a filtered row.
MaxTs(max_submission_ts, row, outcome) ==
    LET sub_ts == SubTs(row)
    IN IF outcome # "filtered" /\ sub_ts # None
          /\ (max_submission_ts = None \/ sub_ts[1] > max_submission_ts[1])
       THEN sub_ts ELSE max_submission_ts

\* Mutant of CounterOf: a save that raised "no changes" is not counted.
CounterOf_VacuousUncounted(outcome) ==
    CASE outcome \in {"filtered", "unchanged"} -> "skipped"
      [] outcome = "created" -> "created"
      [] outcome = "updated" -> "updated"
      [] outcome = "failed" -> "failed"
      [] OTHER -> ""

\* The counter an outcome increments ("" for none).
CounterOf(outcome) ==
    CASE outcome \in {"filtered", "unchanged", "vacuous"} -> "skipped"
      [] outcome = "created" -> "created"
      [] outcome = "updated" -> "updated"
      [] outcome = "failed" -> "failed"
      [] OTHER -> ""

Bump(counts, outcome) ==
    IF CounterOf(outcome) = "" THEN counts
    ELSE [counts EXCEPT ![CounterOf(outcome)] = @ + 1]

ZeroCounts == [created |-> 0, updated |-> 0, skipped |-> 0, failed |-> 0]

\* -------------------------------------------------------------- the inputs
RawTimes ==
    {None, Some([iso |-> FALSE, t |-> 0])} \cup {Some([iso |-> TRUE, t |-> n]) : n \in 1..MaxTime}

\* The submissions the remote form may receive.  Keys: submission_time is
\* "_submission_time"; ref, subject, subject2 are questions of the form;
\* fault is how the case-record store and the escalation hook react to the
\* record built from the submission ("none", "validation": save raises a
\* ValidationError, "error": bootstrap_escalation_fields raises).
Submission(st, rf, s2, f) ==
    [submission_time |-> st, end |-> None, start |-> None,
     ref |-> rf, subject |-> Some(<<"x">>), subject2 |-> s2, color |-> None,
     district_code |-> None, region_code |-> None, district |-> None,
     fault |-> f]

Submissions ==
    { Submission(st, Some(<<"a">>), None, "none") : st \in RawTimes }
    \cup { Submission(Some([iso |-> TRUE, t |-> MaxTime]), rf, None, "none") :
             rf \in {None, Some(<<" ", "a">>)} }
    \cup { Submission(Some([iso |-> TRUE, t |-> MaxTime]), Some(<<"a">>), Some(<<"y">>), "none") }
    \cup { Submission(Some([iso |-> TRUE, t |-> MaxTime]), Some(<<"a">>), None, f) :
             f \in {"validation", "error"} }

Configs == {"ok", "no_token", "no_url", "no_uid"}

\* The "since" overrides a caller passes.
Sinces == {None, Some(1)}

\* ------------------------------------------------------- groups of state
bulk == <<forms, forms0, remotes, flogs, runs, job>>

resolver == <<asked, resolved>>

helper == <<invoked, returned>>

vars == <<now, form, mappings, remote, tickets, logs, pc, run, calls, last, prev, ret,
          bulk, resolver, helper, locations>>

\* While one form is synchronised alone the installation holds no other
\* form and the resolver is not called.
BulkOff ==
    /\ forms = << >> /\ forms0 = << >> /\ remotes = << >>
    /\ flogs = << >> /\ runs = << >> /\ job = << >>

ResolverOff == asked = << >> /\ resolved = << >>

HelperOff == invoked = << >> /\ returned = << >>

\* Location = None (line 155): the location module is not installed.
LocationOff == locations = None

NoRun ==
    [since |-> None, dry_run |-> FALSE, since_ |-> None, counts |-> ZeroCounts,
     max_submission_ts |-> None, next |-> 0, page |-> << >>, seen |-> << >>,
     tickets0 |-> << >>, logs0 |-> 0, wm0 |-> None, call |-> 0, requests |-> 0]

NoSummary ==
    [kind |-> "none", raised |-> FALSE, since |-> None, dry_run |-> FALSE,
     since_ |-> None, counts |-> ZeroCounts, seen |-> << >>, tickets0 |-> << >>,
     logs0 |-> 0, wm0 |-> None, ended |-> 0, call |-> 0, requests |-> 0]

NoReturn ==
    [kind |-> "none", ticket |-> None, row |-> None, dry_run |-> FALSE,
     wrote |-> FALSE, logged |-> FALSE, response |-> "none", requests |-> 0,
     call |-> 0]

\* How the invocation in progress ended, for the record of it.
Summary(kind, raised, r) ==
    [kind |-> kind, raised |-> raised, since |-> r.since, dry_run |-> r.dry_run,
     since_ |-> r.since_, counts |-> r.counts, seen |-> r.seen,
     tickets0 |-> r.tickets0, logs0 |-> r.logs0, wm0 |-> r.wm0, ended |-> now,
     call |-> r.call, requests |-> r.requests]

Init ==
    /\ now = MaxTime
    /\ form \in [config : Configs, last_sync_date : {None}, schema : {"ok"}]
    /\ mappings \in MappingConfigs
    /\ remote = << >>
    /\ tickets = << >>
    /\ logs = << >>
    /\ pc = "idle"
    /\ run = NoRun
    /\ calls = 0
    /\ last = NoSummary
    /\ prev = NoSummary
    /\ ret = NoReturn
    /\ BulkOff /\ ResolverOff /\ HelperOff /\ LocationOff

\* Time passes.
Tick ==
    /\ now < MaxTime + MaxElapsed
    /\ now' = now + 1
    /\ UNCHANGED <<locations, form, mappings, remote, tickets, logs, pc, run, calls, last, prev, ret, bulk, resolver, helper>>

\* A respondent submits the form: the remote platform lists one more submission.
Submit(row) ==
    /\ Len(remote) < MaxRows
    /\ remote' = Append(remote, row)
    /\ UNCHANGED <<now, locations, form, mappings, tickets, logs, pc, run, calls, last, prev, ret, bulk, resolver, helper>>

\* Mutant of StartSyncRaises: the base URL is not checked (as in sync_one).
StartSyncRaises_UrlUnchecked(config) == config \in {"no_token", "no_uid"}

\* The configuration errors of start_sync (lines 540-545): _get_token raises
\* without a KoboToken, the base URL check raises on an empty url_kobo,
\* _get_uid raises without a kobo_uid.
StartSyncRaises(config) == config \in {"no_token", "no_url", "no_uid"}

\* The configuration errors of sync_one (lines 703-705): _get_token and
\* _get_uid only; the base URL is not checked.
SyncOneRaises(config) == config \in {"no_token", "no_uid"}

\* start_sync up to the loop (lines 540-566).  A configuration error raises
\* before anything is requested or written; otherwise the schema of the form
\* is requested (line 551) and "start" logged.
StartSync(since, dry_run) ==
    /\ pc = "idle"
    /\ calls < MaxCalls
    /\ calls' = calls + 1
    /\ prev' = last
    /\ IF StartSyncRaises(form.config) \/ SchemaFetchRaises(form.schema)
       THEN /\ last' = Summary("config", TRUE,
                               [NoRun EXCEPT !.since = since, !.dry_run = dry_run,
                                             !.tickets0 = tickets, !.logs0 = Len(logs),
                                             !.wm0 = form.last_sync_date,
                                             !.call = calls + 1])
            /\ UNCHANGED <<logs, pc, run>>
       ELSE    /\ logs' = Append(logs, _save_log("success", "start", None))
               /\ run' = [since |-> since, dry_run |-> dry_run,
                          since_ |-> EffectiveSince(since, form.last_sync_date),
                          counts |-> ZeroCounts,
                          max_submission_ts |-> form.last_sync_date,
                          next |-> 1, page |-> << >>, seen |-> << >>,
                          tickets0 |-> tickets, logs0 |-> Len(logs),
                          wm0 |-> form.last_sync_date, call |-> calls + 1,
                          requests |-> 1]
               /\ pc' = "collecting"
               /\ last' = last
    /\ UNCHANGED <<now, locations, form, mappings, remote, tickets, ret, bulk, resolver, helper>>

\* iter_submissions asks the remote for its next page (lines 190-197) and gets it.
FetchPage ==
    /\ pc = "collecting"
    /\ run.page = << >>
    /\ run.next # 0
    /\ LET first == run.next
           after == first + PageSize
           upto == IF after - 1 <= Len(remote) THEN after - 1 ELSE Len(remote)
       IN run' = [run EXCEPT !.page = SubSeq(remote, first, upto),
                             !.next = IF after <= Len(remote) THEN after ELSE 0,
                             !.requests = @ + 1]
    /\ UNCHANGED <<now, locations, form, mappings, remote, tickets, logs, pc, calls, last, prev, ret, bulk, resolver, helper>>

\* Mutant of FetchFails: the handler also saves the watermark reached so far.
FetchFails_AdvancesWatermark ==
    /\ pc = "collecting"
    /\ run.page = << >>
    /\ run.next # 0
    /\ form' = [form EXCEPT !.last_sync_date =
                    IF run.max_submission_ts # None THEN run.max_submission_ts ELSE Some(now)]
    /\ logs' = Append(logs, [status |-> "failed", action |-> "error", details |-> None])
    /\ last' = [kind |-> "error", raised |-> FALSE, since |-> run.since,
                dry_run |-> run.dry_run, since_ |-> run.since_, counts |-> run.counts,
                seen |-> run.seen, tickets0 |-> run.tickets0, logs0 |-> run.logs0,
                wm0 |-> run.wm0, ended |-> now, call |-> run.call,
                requests |-> run.requests + 1]
    /\ pc' = "idle"
    /\ run' = NoRun
    /\ UNCHANGED <<now, locations, mappings, remote, tickets, calls, prev, ret, bulk, resolver, helper>>

\* Mutant of FetchFails: the run's writes are undone when the collection fails.
FetchFails_RollsBack ==
    /\ pc = "collecting"
    /\ run.page = << >>
    /\ run.next # 0
    /\ tickets' = run.tickets0
    /\ logs' = Append(logs, [status |-> "failed", action |-> "error", details |-> None])
    /\ last' = [kind |-> "error", raised |-> FALSE, since |-> run.since,
                dry_run |-> run.dry_run, since_ |-> run.since_, counts |-> run.counts,
                seen |-> run.seen, tickets0 |-> run.tickets0, logs0 |-> run.logs0,
                wm0 |-> run.wm0, ended |-> now, call |-> run.call,
                requests |-> run.requests + 1]
    /\ pc' = "idle"
    /\ run' = NoRun
    /\ UNCHANGED <<now, locations, form, mappings, remote, calls, prev, ret, bulk, resolver, helper>>

\* Mutant of FetchFails: the exception of the page request leaves start_sync.
FetchFails_Raises ==
    /\ pc = "collecting"
    /\ run.page = << >>
    /\ run.next # 0
    /\ last' = [kind |-> "error", raised |-> TRUE, since |-> run.since,
                dry_run |-> run.dry_run, since_ |-> run.since_, counts |-> run.counts,
                seen |-> run.seen, tickets0 |-> run.tickets0, logs0 |-> run.logs0,
                wm0 |-> run.wm0, ended |-> now, call |-> run.call,
                requests |-> run.requests + 1]
    /\ pc' = "idle"
    /\ run' = NoRun
    /\ UNCHANGED <<now, locations, form, mappings, remote, tickets, logs, calls, prev, ret, bulk, resolver, helper>>

\* Mutant of FetchFails: the handler logs "error" and, its return forgotten,
\* goes on to save the watermark and log "end".
FetchFails_FallsThrough ==
    /\ pc = "collecting"
    /\ run.page = << >>
    /\ run.next # 0
    /\ form' = [form EXCEPT !.last_sync_date =
                    IF run.max_submission_ts # None THEN run.max_submission_ts ELSE Some(now)]
    /\ logs' = logs \o << [status |-> "failed", action |-> "error", details |-> None],
                          [status |-> "success", action |-> "end",
                           details |-> Some(run.counts)] >>
    /\ last' = Summary("end", FALSE, [run EXCEPT !.requests = @ + 1])
    /\ pc' = "idle"
    /\ run' = NoRun
    /\ UNCHANGED <<now, locations, mappings, remote, tickets, calls, prev, ret, bulk, resolver, helper>>

\* The request for the next page fails (raise_for_status, a network error):
\* the handler of lines 654-657 logs "error" and start_sync returns.
FetchFails ==
    /\ pc = "collecting"
    /\ run.page = << >>
    /\ run.next # 0
    /\ logs' = Append(logs, _save_log("failed", "error", None))
    /\ last' = Summary("error", FALSE, [run EXCEPT !.requests = @ + 1])
    /\ pc' = "idle"
    /\ run' = NoRun
    /\ UNCHANGED <<now, locations, form, mappings, remote, tickets, calls, prev, ret, bulk, resolver, helper>>

\* One iteration of the loop of start_sync (lines 569-652).
ProcessRow ==
    /\ pc = "collecting"
    /\ run.page # << >>
    /\ LET row == Head(run.page)
           r == RowStep(row, tickets, run.since_, run.dry_run, _build_mapping(mappings).direct)
       IN /\ tickets' = r.tickets
          /\ logs' = logs \o r.logs
          /\ run' = [run EXCEPT !.page = Tail(run.page),
                                !.counts = Bump(run.counts, r.outcome),
                                !.max_submission_ts = MaxTs(run.max_submission_ts, row, r.outcome),
                                !.seen = Append(run.seen, [row |-> row, outcome |-> r.outcome,
                                                           wrote |-> r.tickets # tickets])]
    /\ UNCHANGED <<now, locations, form, mappings, remote, pc, calls, last, prev, ret, bulk, resolver, helper>>

\* Mutant of NewWatermark: the watermark is always set to the current time.
NewWatermark_Now(max_submission_ts, t) == Some(t)

\* max_submission_ts or timezone.now()
NewWatermark(max_submission_ts, t) ==
    IF max_submission_ts # None THEN max_submission_ts ELSE Some(t)

\* Mutant of Finish: a dry run leaves the watermark as it is.
Finish_DryRunKeepsWatermark ==
    /\ pc = "collecting"
    /\ run.page = << >>
    /\ run.next = 0
    /\ form' = IF run.dry_run THEN form
               ELSE [form EXCEPT !.last_sync_date = NewWatermark(run.max_submission_ts, now)]
    /\ logs' = Append(logs, _save_log("success", "end", Some(run.counts)))
    /\ last' = Summary("end", FALSE, run)
    /\ pc' = "idle"
    /\ run' = NoRun
    /\ UNCHANGED <<now, locations, mappings, remote, tickets, calls, prev, ret, bulk, resolver, helper>>

\* The loop is over: the watermark is saved and "end" logged (lines 659-673).
Finish ==
    /\ pc = "collecting"
    /\ run.page = << >>
    /\ run.next = 0
    /\ form' = [form EXCEPT !.last_sync_date = NewWatermark(run.max_submission_ts, now)]
    /\ logs' = Append(logs, _save_log("success", "end", Some(run.counts)))
    /\ last' = Summary("end", FALSE, run)
    /\ pc' = "idle"
    /\ run' = NoRun
    /\ UNCHANGED <<now, locations, mappings, remote, tickets, calls, prev, ret, bulk, resolver, helper>>

\* The end of the transaction of sync_one (lines 757-789) on the record
\* ticket that is to be saved: written is the table once it is saved.
Saved(ticket, written, is_create, row, tks) ==
    IF SaveResult(tks, ticket, row.fault) # "ok"
    THEN [tickets |-> AtomicRollback(tks, tks), logs |-> << >>,
          kind |-> "raised", ticket |-> None]
    ELSE IF row.fault = "error"
    THEN [tickets |-> AtomicRollback(tks, written), logs |-> << >>,
          kind |-> "raised", ticket |-> None]
    ELSE [tickets |-> written, logs |-> << _save_log("success", "single", Some(row)) >>,
          kind |-> "ticket",
          ticket |-> Some(IF is_create THEN written[Len(written)] ELSE ticket)]

\* if not ticket.due_date: ticket.due_date = next_due_date(0) (lines 767-768).
WithDueDate(ticket) == [ticket EXCEPT !.due_date = TRUE]

\* The transaction of sync_one (lines 716-789) once the record of the row is
\* prepared: p = [ticket, changed].
Transaction(p, row, tks, dry_run) ==
    IF Decide(dry_run, p.ticket.pk = 0, p.changed) # "save"
    THEN [tickets |-> tks, logs |-> << >>, kind |-> "ticket", ticket |-> Some(p.ticket)]
    ELSE Saved(WithDueDate(p.ticket), Persist(tks, WithDueDate(p.ticket)),
               p.ticket.pk = 0, row, tks)

\* The transaction of sync_one on a fetched submission (lines 721-789):
\* the table, the log entries, and what the caller gets ("ticket": the
\* record is returned, "raised": the exception of the save or of the
\* escalation hook leaves sync_one).
OneStep(row, tks, dry_run, direct_map) ==
    Transaction(Prepare(row, direct_map, tks), row, tks, dry_run)

\* What requests.get of get_submission meets (line 204): "ok" a 200 with the
\* submission, "404", or "failure" (a network error, another status, a body
\* that is not JSON).  An empty base URL makes every request fail (the URL
\* has no scheme); submission_id 0 stands for an identifier the remote does
\* not know.
Responses == {"ok", "404", "failure"}

RequestOutcome(config, submission_id, response) ==
    IF config = "no_url" \/ response = "failure" THEN "failure"
    ELSE IF submission_id = 0 THEN "404" ELSE response

\* Mutant of get_submission: a failure other than a 404 is raised.
get_submission_RaisesOnFailure(rows, submission_id, outcome) ==
    [raised |-> outcome = "failure",
     row |-> IF outcome = "ok" THEN Some(rows[submission_id]) ELSE None]

\* KoboClient.get_submission (lines 199-211): the submission, or None on a 404
\* and on any failure; it never raises.
get_submission(rows, submission_id, outcome) ==
    [raised |-> FALSE,
     row |-> IF outcome = "ok" THEN Some(rows[submission_id]) ELSE None]

\* The effect of sync_one on a submission the remote returned (lines
\* 716-789): r is what the transaction gave.
Returns(r, row, outcome, dry_run) ==
    /\ tickets' = r.tickets
    /\ logs' = logs \o r.logs
    /\ ret' = [kind |-> r.kind, ticket |-> r.ticket, row |-> Some(row),
               dry_run |-> dry_run, wrote |-> r.tickets # tickets,
               logged |-> r.logs # << >>, response |-> outcome,
               requests |-> 2, call |-> calls + 1]

\* Mutant of SyncOne: the form is saved with the current time as watermark.
SyncOne_SavesWatermark(submission_id, response, dry_run) ==
    /\ pc = "idle"
    /\ calls < MaxCalls
    /\ calls' = calls + 1
    /\ LET outcome == RequestOutcome(form.config, submission_id, response)
           got == get_submission(remote, submission_id, outcome)
           base == [NoReturn EXCEPT !.dry_run = dry_run, !.call = calls + 1]
       IN IF SyncOneRaises(form.config) \/ SchemaFetchRaises(form.schema)
          THEN /\ ret' = [base EXCEPT !.kind = "raised"]
               /\ UNCHANGED <<tickets, logs>>
          ELSE IF got.raised
          THEN /\ ret' = [base EXCEPT !.kind = "raised", !.response = outcome, !.requests = 2]
               /\ UNCHANGED <<tickets, logs>>
          ELSE IF got.row = None
          THEN /\ ret' = [base EXCEPT !.kind = "not_found", !.response = outcome,
                                      !.requests = 2]
               /\ UNCHANGED <<tickets, logs>>
          ELSE Returns(OneStep(got.row[1], tickets, dry_run, _build_mapping(mappings).direct),
                       got.row[1], outcome, dry_run)
    /\ form' = [form EXCEPT !.last_sync_date = Some(now)]
    /\ UNCHANGED <<now, locations, mappings, remote, pc, run, last, prev, bulk, resolver, helper>>

\* sync_one(kobo_form, submission_id, dry_run): the configuration checks, the
\* request for the schema (line 711), get_submission, and the transaction.
SyncOne(submission_id, response, dry_run) ==
    /\ pc = "idle"
    /\ calls < MaxCalls
    /\ calls' = calls + 1
    /\ LET outcome == RequestOutcome(form.config, submission_id, response)
           got == get_submission(remote, submission_id, outcome)
           base == [NoReturn EXCEPT !.dry_run = dry_run, !.call = calls + 1]
       IN IF SyncOneRaises(form.config) \/ SchemaFetchRaises(form.schema)
          THEN /\ ret' = [base EXCEPT !.kind = "raised"]
               /\ UNCHANGED <<tickets, logs>>
          ELSE IF got.raised
          THEN /\ ret' = [base EXCEPT !.kind = "raised", !.response = outcome, !.requests = 2]
               /\ UNCHANGED <<tickets, logs>>
          ELSE IF got.row = None
          THEN /\ ret' = [base EXCEPT !.kind = "not_found", !.response = outcome,
                                      !.requests = 2]
               /\ UNCHANGED <<tickets, logs>>
          ELSE Returns(OneStep(got.row[1], tickets, dry_run, _build_mapping(mappings).direct),
                       got.row[1], outcome, dry_run)
    /\ UNCHANGED <<now, locations, form, mappings, remote, pc, run, last, prev, bulk, resolver, helper>>

Next ==
    \/ Tick
    \/ \E row \in Submissions : Submit(row)
    \/ \E since \in Sinces, dry_run \in BOOLEAN : StartSync(since, dry_run)
    \/ FetchPage
    \/ FetchFails
    \/ ProcessRow
    \/ Finish
    \/ \E id \in 0..Len(remote), response \in Responses, dry_run \in BOOLEAN :
          SyncOne(id, response, dry_run)

Spec == Init /\ [][Next]_vars

\* ------------------------------------------- a form with a select question
\* The form maps its select question "color" onto the title; the server of
\* its schema answers or fails.
SchemaMappings ==
    << [kobo_field |-> "ref", grievance_field |-> "code"],
       [kobo_field |-> "color", grievance_field |-> "title"] >>

SchemaSubmissions ==
    { [Submission(Some([iso |-> TRUE, t |-> MaxTime]), Some(rf), None, "none")
          EXCEPT !.subject = None, !.color = Some(c)] :
        rf \in {<<"a">>, <<"b">>},
        c \in {<<"a">>, <<"z">>, <<"a", " ", "b">>} }

SchemaInit ==
    /\ now = MaxTime
    /\ form \in [config : {"ok"}, last_sync_date : {None}, schema : {"ok", "fails"}]
    /\ mappings = SchemaMappings
    /\ remote = << >>
    /\ tickets = << >>
    /\ logs = << >>
    /\ pc = "idle"
    /\ run = NoRun
    /\ calls = 0
    /\ last = NoSummary
    /\ prev = NoSummary
    /\ ret = NoReturn
    /\ BulkOff /\ ResolverOff /\ HelperOff /\ LocationOff

SchemaNext ==
    \/ \E row \in SchemaSubmissions : Submit(row)
    \/ \E dry_run \in BOOLEAN : StartSync(None, dry_run)
    \/ FetchPage
    \/ ProcessRow
    \/ Finish
    \/ \E id \in 1..Len(remote), dry_run \in BOOLEAN : SyncOne(id, "ok", dry_run)

SchemaSpec == SchemaInit /\ [][SchemaNext]_vars

\* --------------------------------------- submissions and their timestamps
\* A submission of the complaint "a" with its three raw timestamps.
Timed(st, e, s0) ==
    [Submission(st, Some(<<"a">>), None, "none") EXCEPT !.end = e, !.start = s0]

\* A raw timestamp parse_datetime rejects; one it accepts, of instant t.
Unparsable == Some([iso |-> FALSE, t |-> 0])
Parsable(t) == Some([iso |-> TRUE, t |-> t])

\* Submissions with no timestamp, with a first timestamp that does not
\* parse (alone, or before one that would), and with a first one that does.
TimestampSubmissions ==
    { Timed(None, None, None),
      Timed(Unparsable, None, None),
      Timed(Unparsable, Parsable(1), None),
      Timed(None, Unparsable, Parsable(1)),
      Timed(None, None, Unparsable),
      Timed(None, Parsable(1), None),
      Timed(None, None, Parsable(2)),
      Timed(Parsable(MaxTime), Unparsable, None) }

TimestampInit ==
    /\ now = MaxTime
    /\ form \in [config : {"ok"}, last_sync_date : {None}, schema : {"ok"}]
    /\ mappings \in MappingConfigs
    /\ remote = << >>
    /\ tickets = << >>
    /\ logs = << >>
    /\ pc = "idle"
    /\ run = NoRun
    /\ calls = 0
    /\ last = NoSummary
    /\ prev = NoSummary
    /\ ret = NoReturn
    /\ BulkOff /\ ResolverOff /\ HelperOff /\ LocationOff

TimestampNext ==
    \/ \E row \in TimestampSubmissions : Submit(row)
    \/ \E since \in Sinces, dry_run \in BOOLEAN : StartSync(since, dry_run)
    \/ FetchPage
    \/ ProcessRow
    \/ Finish

TimestampSpec == TimestampInit /\ [][TimestampNext]_vars

\* ------------------------------------------- a deployment with locations
\* The Location rows of a deployment where the location module is installed.
LocationTable ==
    << [code |-> <<"p">>, name |-> <<"N", "o">>],
       [code |-> <<"q">>, name |-> <<"S", "u">>] >>

\* A submission of the complaint "a" with its geographic answers.
Located_Submission(dc, rc, d) ==
    [Submission(Some([iso |-> TRUE, t |-> MaxTime]), Some(<<"a">>), None, "none")
        EXCEPT !.district_code = dc, !.region_code = rc, !.district = d]

\* No geographic answer; a district code; another; an unknown district code
\* with a region code; with a district name; an empty code with a name; all.
LocationSubmissions ==
    { Located_Submission(None, None, None),
      Located_Submission(Some(<<"p">>), None, None),
      Located_Submission(Some(<<"q">>), None, None),
      Located_Submission(Some(<<"z">>), Some(<<"q">>), None),
      Located_Submission(Some(<<"z">>), None, Some(<<"n", "o">>)),
      Located_Submission(Some(<< >>), None, Some(<<"S", "U">>)),
      Located_Submission(Some(<<"p">>), Some(<<"q">>), Some(<<"s", "u">>)) }

LocationInit ==
    /\ now = MaxTime
    /\ form \in [config : {"ok"}, last_sync_date : {None}, schema : {"ok"}]
    /\ mappings \in MappingConfigs
    /\ remote = << >>
    /\ tickets = << >>
    /\ logs = << >>
    /\ pc = "idle"
    /\ run = NoRun
    /\ calls = 0
    /\ last = NoSummary
    /\ prev = NoSummary
    /\ ret = NoReturn
    /\ BulkOff /\ ResolverOff /\ HelperOff
    /\ locations = Some(LocationTable)

LocationNext ==
    \/ \E row \in LocationSubmissions : Submit(row)
    \/ \E dry_run \in BOOLEAN : StartSync(None, dry_run)
    \/ FetchPage
    \/ ProcessRow
    \/ Finish
    \/ \E id \in 1..Len(remote), dry_run \in BOOLEAN : SyncOne(id, "ok", dry_run)

LocationSpec == LocationInit /\ [][LocationNext]_vars

\* ========================================================== several forms
FormIds == {1, 2}

\* The state of the single-form model, at rest while several forms are run.
single == <<form, remote, logs, pc, run, calls, last, prev, ret>>

SingleOff ==
    /\ form = [config |-> "ok", last_sync_date |-> None, schema |-> "ok"]
    /\ remote = << >> /\ logs = << >> /\ pc = "idle" /\ run = NoRun
    /\ calls = 0 /\ last = NoSummary /\ prev = NoSummary /\ ret = NoReturn

\* Mutant of should_sync: a form is due only strictly after the interval.
should_sync_Late(f, t) ==
    IF ~f.auto_sync THEN FALSE
    ELSE IF f.sync_interval = None \/ f.sync_interval[1] <= 0 THEN TRUE
    ELSE IF f.last_sync_date = None THEN TRUE
    ELSE t - f.last_sync_date[1] > f.sync_interval[1] * TicksPerMinute

\* should_sync (lines 239-249), t being timezone.now().
should_sync(f, t) ==
    IF ~f.auto_sync THEN FALSE
    ELSE IF f.sync_interval = None \/ f.sync_interval[1] <= 0 THEN TRUE
    ELSE IF f.last_sync_date = None THEN TRUE
    ELSE t - f.last_sync_date[1] >= f.sync_interval[1] * TicksPerMinute

\* A KoboForm: config as in the single-form model, auto_sync, sync_interval
\* (minutes, None if unset) and last_sync_date.
KoboForm(config, auto_sync, sync_interval, last_sync_date) ==
    [config |-> config, auto_sync |-> auto_sync, sync_interval |-> sync_interval,
     last_sync_date |-> last_sync_date]

\* The watermark that makes a form of interval 1 due at this very instant.
DueSince == MaxTime - TicksPerMinute

\* The forms an installation may hold: never synchronised, synchronised one
\* minute ago exactly or less than a minute ago, with an interval unset,
\* zero, negative or of one minute, enabled or disabled, well or badly
\* configured.
KoboForms ==
    { KoboForm("ok", TRUE, None, None),
      KoboForm("ok", TRUE, Some(0), Some(DueSince + 1)),
      KoboForm("ok", TRUE, Some(0 - 1), Some(DueSince + 1)),
      KoboForm("ok", TRUE, Some(1), None),
      KoboForm("ok", TRUE, Some(1), Some(DueSince)),
      KoboForm("ok", TRUE, Some(1), Some(DueSince + 1)),
      KoboForm("ok", FALSE, None, None),
      KoboForm("ok", FALSE, Some(1), Some(DueSince)),
      KoboForm("no_uid", TRUE, None, None) }

\* The submissions of a remote form: none, or two of different business codes.
BulkRow(rf) == Submission(Some([iso |-> TRUE, t |-> MaxTime]), Some(<<rf>>), None, "none")

BulkRemotes ==
    { << >>, <<BulkRow("a"), BulkRow("b")>>, <<BulkRow("b"), BulkRow("a")>> }

\* A start_sync call on a form: pc is "idle" before it, "collecting" in its
\* loop, and then how it ended: "config" (raised), "error", "end".
NoCall ==
    [pc |-> "idle", by |-> "none", since_ |-> None, counts |-> ZeroCounts,
     max_submission_ts |-> None, next |-> 0, outcomes |-> << >>]

NoJob ==
    [pc |-> "idle", at |-> 0, waiting |-> 0, invoked |-> [f \in FormIds |-> 0],
     raised |-> FALSE, seen |-> << >>]

BulkInit ==
    /\ now = MaxTime
    /\ mappings \in MappingConfigs
    /\ tickets = << >>
    /\ SingleOff /\ ResolverOff /\ HelperOff /\ LocationOff
    /\ forms \in [FormIds -> KoboForms]
    /\ forms0 = forms
    /\ remotes \in [FormIds -> BulkRemotes]
    /\ flogs = [f \in FormIds |-> << >>]
    /\ runs = [f \in FormIds |-> NoCall]
    /\ job = NoJob

\* Mutant of LogForm: every entry is attached to the first form.
LogForm_First(f) == 1

\* KoboSyncLog(kobo_form=form) (line 300): the form an entry is attached to.
LogForm(f) == f

\* start_sync(form f) up to its loop (lines 540-566), called by the admin
\* action or by sync_all_kobo_forms.
Begin(f, by) ==
    IF StartSyncRaises(forms[f].config)
    THEN /\ runs' = [runs EXCEPT ![f] = [NoCall EXCEPT !.pc = "config", !.by = by]]
         /\ UNCHANGED flogs
    ELSE /\ runs' = [runs EXCEPT ![f] =
                        [pc |-> "collecting", by |-> by,
                         since_ |-> EffectiveSince(None, forms[f].last_sync_date),
                         counts |-> ZeroCounts,
                         max_submission_ts |-> forms[f].last_sync_date,
                         next |-> 1, outcomes |-> << >>]]
         /\ flogs' = [flogs EXCEPT ![LogForm(f)] =
                         Append(@, _save_log("success", "start", None))]

\* sync_all_kobo_forms goes on to the next form once the start_sync it
\* called has returned.
Returned(f) ==
    IF job.waiting = f THEN [job EXCEPT !.waiting = 0, !.at = @ + 1] ELSE job

\* start_sync is called on form f (admin action, sync_since, a command).
AdminSync(f) ==
    /\ job.pc = "idle"
    /\ runs[f].pc = "idle"
    /\ Begin(f, "admin")
    /\ UNCHANGED <<now, locations, mappings, tickets, single, resolver, helper, forms, forms0, remotes, job>>

\* One iteration of the loop of the start_sync in progress on form f.
BulkProcessRow(f) ==
    /\ runs[f].pc = "collecting"
    /\ runs[f].next <= Len(remotes[f])
    /\ LET row == remotes[f][runs[f].next]
           r == RowStep(row, tickets, runs[f].since_, FALSE, _build_mapping(mappings).direct)
       IN /\ tickets' = r.tickets
          /\ flogs' = [flogs EXCEPT ![LogForm(f)] = @ \o r.logs]
          /\ runs' = [runs EXCEPT ![f].next = @ + 1,
                                  ![f].counts = Bump(@, r.outcome),
                                  ![f].max_submission_ts = MaxTs(@, row, r.outcome),
                                  ![f].outcomes = Append(@, r.outcome)]
    /\ UNCHANGED <<now, locations, mappings, single, resolver, helper, forms, forms0, remotes, job>>

\* The request for a page of form f fails: the first request, or the request
\* for a further page (lines 654-657).
BulkFetchFails(f) ==
    /\ runs[f].pc = "collecting"
    /\ (runs[f].next - 1) % PageSize = 0
    /\ runs[f].next = 1 \/ runs[f].next <= Len(remotes[f])
    /\ flogs' = [flogs EXCEPT ![LogForm(f)] = Append(@, _save_log("failed", "error", None))]
    /\ runs' = [runs EXCEPT ![f].pc = "error"]
    /\ job' = Returned(f)
    /\ UNCHANGED <<now, locations, mappings, tickets, single, resolver, helper, forms, forms0, remotes>>

\* The loop over the submissions of form f is over (lines 659-673).
BulkFinish(f) ==
    /\ runs[f].pc = "collecting"
    /\ runs[f].next > Len(remotes[f])
    /\ forms' = [forms EXCEPT ![f].last_sync_date =
                     NewWatermark(runs[f].max_submission_ts, now)]
    /\ flogs' = [flogs EXCEPT ![LogForm(f)] =
                     Append(@, _save_log("success", "end", Some(runs[f].counts)))]
    /\ runs' = [runs EXCEPT ![f].pc = "end"]
    /\ job' = Returned(f)
    /\ UNCHANGED <<now, locations, mappings, tickets, single, resolver, helper, forms0, remotes>>

\* sync_all_kobo_forms is called (by run_kobo_sync_job, tasks.py) while no
\* start_sync is in progress: its loop starts at the first form.
SyncAllBegin ==
    /\ job.pc = "idle"
    /\ \A f \in FormIds : runs[f].pc # "collecting"
    /\ job' = [NoJob EXCEPT !.pc = "loop", !.at = 1, !.seen = forms]
    /\ UNCHANGED <<now, locations, mappings, tickets, single, resolver, helper, forms, forms0, remotes,
                   flogs, runs>>

\* Mutant of AfterCall: an exception of start_sync leaves sync_all_kobo_forms.
AfterCall_Propagates(j, f, raises) ==
    IF raises THEN [j EXCEPT !.invoked[f] = @ + 1, !.pc = "done", !.raised = TRUE]
    ELSE [j EXCEPT !.invoked[f] = @ + 1, !.waiting = f]

\* The loop of sync_all_kobo_forms once it has called start_sync on form f
\* (lines 686-688): an exception is caught and logged and the loop goes on;
\* otherwise it waits for start_sync to return.
AfterCall(j, f, raises) ==
    IF raises THEN [j EXCEPT !.invoked[f] = @ + 1, !.at = @ + 1]
    ELSE [j EXCEPT !.invoked[f] = @ + 1, !.waiting = f]

\* One iteration of the loop of sync_all_kobo_forms (lines 678-688): a form
\* that is disabled or not due is passed over, start_sync is called on the
\* others.
Visit ==
    /\ job.pc = "loop"
    /\ job.waiting = 0
    /\ job.at \in FormIds
    /\ LET f == job.at
       IN IF ~forms[f].auto_sync \/ ~should_sync(forms[f], now)
          THEN /\ job' = [job EXCEPT !.at = @ + 1]
               /\ UNCHANGED <<runs, flogs>>
          ELSE /\ Begin(f, "job")
               /\ job' = AfterCall(job, f, StartSyncRaises(forms[f].config))
    /\ UNCHANGED <<now, locations, mappings, tickets, single, resolver, helper, forms, forms0, remotes>>

\* The loop is over: sync_all_kobo_forms returns.
SyncAllEnd ==
    /\ job.pc = "loop"
    /\ job.waiting = 0
    /\ job.at \notin FormIds
    /\ job' = [job EXCEPT !.pc = "done"]
    /\ UNCHANGED <<now, locations, mappings, tickets, single, resolver, helper, forms, forms0, remotes,
                   flogs, runs>>

BulkNext ==
    \/ \E f \in FormIds : AdminSync(f)
    \/ \E f \in FormIds : BulkProcessRow(f)
    \/ \E f \in FormIds : BulkFetchFails(f)
    \/ \E f \in FormIds : BulkFinish(f)
    \/ SyncAllBegin
    \/ Visit
    \/ SyncAllEnd

BulkSpec == BulkInit /\ [][BulkNext]_vars

\* ====================================================== the label resolver
\* Longest raw string, longest raw list.
MaxLen == 3
MaxCodes == 2

Chars == {"a", "b", "z", " ", ","}

Strings(n) == UNION {[1..k -> Chars] : k \in 0..n}

Codes == {<<"a">>, <<"b">>, <<"z">>, <<"a", "b">>}

\* Numbers a question may carry as a raw value.
Numbers == {1, 2}

Questions ==
    [kobo_key : {<<"color">>, <<"grp", "color">>, <<"name">>},
     kind : {"str"}, raw_val : Strings(MaxLen)]
    \cup [kobo_key : {<<"color">>, <<"grp", "color">>, <<"name">>},
          kind : {"list"}, raw_val : UNION {[1..k -> Codes] : k \in 0..MaxCodes}]
    \cup [kobo_key : {<<"color">>, <<"grp", "color">>, <<"name">>},
          kind : {"int"}, raw_val : Numbers]

ResolverInit ==
    /\ now = MaxTime
    /\ mappings \in MappingConfigs
    /\ tickets = << >>
    /\ SingleOff /\ BulkOff /\ HelperOff /\ LocationOff
    /\ asked \in Questions
    /\ resolved = [done |-> FALSE, value |-> << >>]

\* _apply_mapping calls the resolver on a mapped question (lines 488, 520).
Resolve ==
    /\ ~resolved.done
    /\ resolved' = [done |-> TRUE,
                    value |-> resolve(asked.kobo_key, asked.kind, asked.raw_val)]
    /\ UNCHANGED <<now, locations, mappings, tickets, single, bulk, helper, asked>>

ResolverNext == Resolve

ResolverSpec == ResolverInit /\ [][ResolverNext]_vars

\* ==================================================== the helper functions
\* _coerce_bool_fr (lines 127-134)
_coerce_bool_fr(value) ==
    IF value.kind = "str"
    THEN LET v == Lower(Strip(value.v))
         IN IF v \in {<<"o", "u", "i">>, <<"y", "e", "s">>, <<"t", "r", "u", "e">>, <<"1">>}
            THEN Val("bool", TRUE)
            ELSE IF v \in {<<"n", "o", "n">>, <<"n", "o">>,
                           <<"f", "a", "l", "s", "e">>, <<"0">>}
            THEN Val("bool", FALSE)
            ELSE value
    ELSE value

\* str.split(","): the pieces between the commas
RECURSIVE SplitComma(_, _)
SplitComma(s, piece) ==
    IF s = << >> THEN <<piece>>
    ELSE IF Head(s) = "," THEN <<piece>> \o SplitComma(Tail(s), << >>)
    ELSE SplitComma(Tail(s), Append(piece, Head(s)))

\* [v.strip() for v in val.split(",") if v.strip()]
ResponsableList(s) ==
    LET pieces == SplitComma(s, << >>)
        stripped == [k \in 1..Len(pieces) |-> Strip(pieces[k])]
    IN SelectSeq(stripped, NonEmpty)

\* dotted.endswith("responsable_plainte"), on the targets the mappings use
EndsWithResponsable(dotted) == dotted = "json_ext.responsable_plainte"

\* dotted[9:] if dotted.startswith("json_ext.") else dotted
ExtrasPath(dotted) ==
    CASE dotted = "json_ext.note" -> "note"
      [] dotted = "json_ext.responsable_plainte" -> "responsable_plainte"
      [] OTHER -> dotted

\* The value the extras loop of _apply_mapping stores for a raw string of
\* the row (lines 518-524); with_labels: resolve_label is not None.
ExtrasValue(kobo_key, dotted, raw_val, with_labels) ==
    LET val1 == IF with_labels THEN resolve(<<kobo_key>>, "str", raw_val)
                ELSE Val("str", raw_val)
        val2 == IF val1.kind = "str" /\ (\E k \in 1..Len(val1.v) : val1.v[k] = ",")
                   /\ EndsWithResponsable(dotted)
                THEN Val("list", ResponsableList(val1.v)) ELSE val1
    IN _coerce_bool_fr(val2)

\* _dot_set(json_ext, path, val) for a path of one part: cur[p] = value
_dot_set(d, path, value) ==
    IF \E i \in 1..Len(d) : d[i][1] = path
    THEN [i \in 1..Len(d) |-> IF d[i][1] = path THEN <<path, value>> ELSE d[i]]
    ELSE Append(d, <<path, value>>)

\* The extras loop of _apply_mapping (lines 515-526) from mapping i on; the
\* row is a function from the remote field paths to their optional raw values.
RECURSIVE ApplyExtras(_, _, _, _, _)
ApplyExtras(row, extras_map, i, json_ext, with_labels) ==
    IF i > Len(extras_map) THEN json_ext
    ELSE LET kobo_key == extras_map[i][1]
             dotted == extras_map[i][2]
         IN IF row[kobo_key] = None
            THEN ApplyExtras(row, extras_map, i + 1, json_ext, with_labels)
            ELSE ApplyExtras(row, extras_map, i + 1,
                             _dot_set(json_ext, ExtrasPath(dotted),
                                      ExtrasValue(kobo_key, dotted, row[kobo_key][1],
                                                  with_labels)),
                             with_labels)

\* _apply_mapping (lines 469-531): the record after the direct loop, the bag
\* after the extras loop, and the changed flag.
ApplyMapping(row, direct_map, extras_map, ticket, with_labels) ==
    LET d == ApplyDirect(row, direct_map, 1, ticket, FALSE, with_labels)
        original_json == ticket.json_ext
        json_ext == ApplyExtras(row, extras_map, 1, original_json, with_labels)
    IN [ticket |-> d.ticket, json_ext |-> json_ext,
        changed |-> d.changed \/ json_ext # original_json]

\* unicodedata.normalize("NFKD", s): an accented letter, written "e'", becomes
\* the letter followed by the combining accent "'".
RECURSIVE NFKD(_)
NFKD(s) ==
    IF s = << >> THEN << >>
    ELSE (CASE Head(s) = "e'" -> <<"e", "'">>
            [] Head(s) = "E'" -> <<"E", "'">>
            [] OTHER -> <<Head(s)>>) \o NFKD(Tail(s))

\* not unicodedata.combining(c)
NotCombining(c) == c # "'"

\* _strip_accents_lower (lines 377-382)
_strip_accents_lower(s) == Lower(SelectSeq(NFKD(s), NotCombining))

\* The tokens of lines 391 and 393.
Sensible == <<"s", "e", "n", "s", "i", "b", "l", "e">>

NonSensibleTokens ==
    { <<"c", "a", "s", "_", "n", "o", "n", "_">> \o Sensible,
      <<"n", "o", "n", " ">> \o Sensible,
      <<"n", "o", "n", " ">> \o Sensible \o <<"s">> }

SensibleTokens ==
    { <<"c", "a", "s", "_">> \o Sensible, Sensible, Sensible \o <<"s">> }

\* Mutant of _infer_priority: the sensitive tokens are looked for first.
_infer_priority_SensitiveFirst(row_category, category_value) ==
    LET v == IF row_category # None /\ row_category[1] # << >> THEN row_category[1]
             ELSE IF category_value # None /\ category_value[1] # << >>
             THEN category_value[1] ELSE << >>
        v_norm == _strip_accents_lower(v)
    IN IF \E k \in SensibleTokens : Contains(v_norm, k) THEN Some("Critical")
       ELSE IF \E k \in NonSensibleTokens : Contains(v_norm, k) THEN Some("Normal")
       ELSE None

\* _infer_priority (lines 385-395); row_category is
\* row.get("group_categorie/categories_plainte").
_infer_priority(row_category, category_value) ==
    LET v == IF row_category # None /\ row_category[1] # << >> THEN row_category[1]
             ELSE IF category_value # None /\ category_value[1] # << >>
             THEN category_value[1] ELSE << >>
        v_norm == _strip_accents_lower(v)
    IN IF \E k \in NonSensibleTokens : Contains(v_norm, k) THEN Some("Normal")
       ELSE IF \E k \in SensibleTokens : Contains(v_norm, k) THEN Some("Critical")
       ELSE None

\* The priority rule of start_sync and sync_one (lines 592-594, 734-736) on
\* a record with the fields category and priority: (record, changed).
PriorityRule(row_category, ticket) ==
    LET prio == _infer_priority(row_category, ticket.category)
    IN IF prio # None THEN _assign_if_changed(ticket, "priority", prio)
       ELSE [ticket |-> ticket, changed |-> FALSE]

\* The category texts: an optional lead, an optional negation, a word, an
\* optional tail, in several spellings.
CategoryTexts ==
    { lead \o neg \o word \o tail :
        lead \in {<< >>, <<"x", " ">>},
        neg \in {<< >>, <<"n", "o", "n", " ">>, <<"N", "o", "n", " ">>,
                 <<"n", "o", "n", "-">>, <<"c", "a", "s", "_">>, <<"C", "A", "S", "_">>,
                 <<"c", "a", "s", "_", "n", "o", "n", "_">>},
        word \in {<< >>, Sensible, <<"S">> \o Tail(Sensible),
                  <<"s", "e'">> \o SubSeq(Sensible, 3, 8),
                  Sensible \o <<"s">>, <<"a", "u", "t", "r", "e">>},
        tail \in {<< >>, <<" ", "x">>} }

PriorityCalls ==
    [fn : {"priority"},
     row_category : {None} \cup {Some(t) : t \in CategoryTexts},
     ticket : [category : {None, Some(Sensible), Some(<<"n", "o", "n", " ">> \o Sensible)},
               priority : {None, Some("Normal"), Some("Critical")}]]

\* Ticket.TicketStatus.CLOSED, Ticket.TicketStatus.RESOLVED (lines 426-427)
closed == "CLOSED"

resolved_status == "RESOLVED"

\* Mutant of _maybe_set_resolved: a closed record is resolved again.
_maybe_set_resolved_ReopensClosed(ticket) ==
    LET has_resolution == ticket.resolution # None /\ ticket.resolution[1] # << >>
    IN IF has_resolution /\ ticket.status # resolved_status
       THEN _assign_if_changed(ticket, "status", resolved_status)
       ELSE [ticket |-> ticket, changed |-> FALSE]

\* _maybe_set_resolved (lines 421-432): (record, changed)
_maybe_set_resolved(ticket) ==
    LET has_resolution == ticket.resolution # None /\ ticket.resolution[1] # << >>
        cur == ticket.status
    IN IF has_resolution /\ cur # closed /\ cur # resolved_status
       THEN _assign_if_changed(ticket, "status", resolved_status)
       ELSE [ticket |-> ticket, changed |-> FALSE]

\* The records the rule is applied to: every status, no resolution, an empty
\* one, one of a blank, one of a word.
StatusCalls ==
    [fn : {"status"},
     ticket : [status : {"RECEIVED", "OPEN", "IN_PROGRESS", "RESOLVED", "CLOSED"},
               resolution : {None, Some(<< >>), Some(<<" ">>), Some(<<"o", "k">>)},
               title : {None, Some(<<"x">>)}]]

\* The calls of _save_log: the form, a status string, an action.
LogCalls ==
    [fn : {"log"}, form : FormIds,
     status : {"success", "failed", "error", "warning", "ERROR", "Failed", "ok", ""},
     action : {"start", "row_error", "error", "end", "single"}]

\* The ValidationErrors the handler of lines 640-648 may meet, by their
\* messages: "no changes" in several letter cases, inside a longer message,
\* spread over two messages, and texts that do not have it.
SignalMessages ==
    { << NoChanges >>,
      << <<"N", "o", " ", "c", "h", "a", "n", "g", "e", "s">> >>,
      << <<"N", "O", " ", "C", "H", "A", "N", "G", "E", "S">> >>,
      << <<"n", "o", " ", "C", "h", "a", "n", "g", "e", "s">> >>,
      << <<"x", " ">> \o NoChanges \o <<".">> >>,
      << <<"i", "n", "v", "a", "l", "i", "d">>, NoChanges >>,
      << <<"n", "o">>, <<"c", "h", "a", "n", "g", "e", "s">> >>,
      << <<"N", "o">>, <<"C", "h", "a", "n", "g", "e", "s">> >>,
      << <<"n", "o", "c", "h", "a", "n", "g", "e", "s">> >>,
      << <<"n", "o", " ", " ", "c", "h", "a", "n", "g", "e", "s">> >>,
      << <<"n", "o", " ", "c", "h", "a", "n", "g", "e">> >>,
      << <<"c", "h", "a", "n", "g", "e", "s", " ", "n", "o">> >>,
      << <<"i", "n", "v", "a", "l", "i", "d">> >>,
      << << >> >>,
      << >> }

\* The handler of a ValidationError, on the counters so far.
SignalCalls ==
    [fn : {"signal"}, messages : SignalMessages,
     row : {Submission(None, Some(<<"a">>), None, "none"),
            Submission(None, Some(<<"b">>), None, "validation")},
     counts : {ZeroCounts, [created |-> 1, updated |-> 0, skipped |-> 2, failed |-> 1]}]

\* The raw texts of an extras question: every text of up to MaxLen of the
\* characters below, and some longer ones.
BoolChars == {"o", "O", "u", "i", "n", "N", "1", " ", ","}

BoolTexts ==
    UNION {[1..k -> BoolChars] : k \in 0..MaxLen}
    \cup { <<"y", "e", "s">>, <<"Y", "e", "s">>, <<"t", "r", "u", "e">>,
           <<"f", "a", "l", "s", "e">>, <<"0">>, <<" ", "O", "u", "i", " ">>,
           <<"O", "u", "i", "i">>, <<"a">>, <<"o", ",", " ", "u", "i">> }

\* The calls of the extras loop: one extras mapping, of the question "name"
\* or of the select question "color", onto a path of the attribute bag.
ExtrasCalls ==
    [fn : {"extras"}, kobo_key : {"name", "color"},
     dotted : {"json_ext.note", "json_ext.responsable_plainte"},
     raw_val : {None} \cup {Some(t) : t \in BoolTexts},
     with_labels : BOOLEAN]

\* The calls of _find_existing_ticket.  The rows: the business reference
\* under "ref" and "ref2", the identifiers Kobo gives the submission.
FindRows ==
    { ("ref" :> rf) @@ ("ref2" :> r2) @@ ("_uuid" :> u) @@ ("meta/instanceID" :> n) :
        rf \in {None, Some(<< >>), Some(<<"a">>), Some(<<"b">>)},
        r2 \in {None, Some(<<"a">>)},
        u \in {None, Some(<<"u">>)},
        n \in {None, Some(<<"n">>)} }

FindMaps ==
    { << <<"ref", "code">> >>, << <<"ref", "title">> >>,
      << <<"ref", "code">>, <<"ref2", "code">> >> }

\* A stored record as far as the lookup reads it.
Stored(pk, code, kobo_uuid, instance_id) ==
    [pk |-> pk, code |-> code, kobo_uuid |-> kobo_uuid, instance_id |-> instance_id]

\* The tables of stored records: at most one with the code "a", one with
\* the UUID, two with the instance ID, one with an empty code.
FindTables ==
    { << >>,
      << Stored(1, Some(<<"a">>), None, None) >>,
      << Stored(1, Some(<<"c">>), Some(<<"u">>), None), Stored(2, Some(<<"a">>), None, None) >>,
      << Stored(1, Some(<<"c">>), None, Some(<<"n">>)),
         Stored(2, Some(<<"d">>), Some(<<"u">>), None),
         Stored(3, Some(<<"a">>), None, Some(<<"n">>)) >>,
      << Stored(1, Some(<<"c">>), Some(<<"u">>), Some(<<"n">>)),
         Stored(2, Some(<< >>), None, None) >> }

FindCalls ==
    [fn : {"find"}, row : FindRows, direct_map : FindMaps, tks : FindTables,
     fields : {TicketFields, TicketFields \cup {"kobo_uuid"},
               TicketFields \cup {"instance_id"},
               TicketFields \cup {"kobo_uuid", "instance_id"}}]

\* Largest number of KoboFieldMapping rows of a form.
MaxMappings == 3

\* The calls of _build_mapping: the KoboFieldMapping rows of the form, in
\* the order the query lists them.
BuildCalls ==
    [fn : {"build"},
     ms : UNION {[1..k -> [kobo_field : {"", " ", "ref", "subject"},
                           grievance_field : {"", "code", "title", "json_ext.note"}]] :
                    k \in 0..MaxMappings}]

\* The calls of _apply_mapping.  The direct maps: up to MaxDirect entries
\* with distinct remote field paths, onto a CharField, the foreign key or a
\* name that is not a field of the record.
MaxDirect == 2

ApplyMaps ==
    LET entries == {"ref", "subject"} \X {"code", "title", "attending_staff", "bogus"}
        maps == UNION {[1..k -> entries] : k \in 0..MaxDirect}
    IN {m \in maps : \A i, j \in 1..Len(m) : i # j => m[i][1] # m[j][1]}

ApplyRows ==
    { ("ref" :> rf) @@ ("subject" :> sb) :
        rf \in {None, Some(<<"a">>), Some(<<" ", "b">>)},
        sb \in {None, Some(<<"x">>)} }

\* The records: a new one, and a stored one with an attending staff.
ApplyTickets ==
    { [pk |-> 0, code |-> None, title |-> None, attending_staff |-> None,
       json_ext |-> << >>],
      [pk |-> 1, code |-> Some(<<"a">>), title |-> Some(<<"x">>),
       attending_staff |-> Some(<<"s">>),
       json_ext |-> << <<"note", Val("str", <<"x">>)>> >>] }

ApplyCalls ==
    [fn : {"apply"}, row : ApplyRows, direct_map : ApplyMaps,
     extras_map : {<< >>, << <<"subject", "json_ext.note">> >>},
     ticket : ApplyTickets, with_labels : BOOLEAN]

\* _apply_mapping called twice on the same record with the same arguments.
ReapplyCalls ==
    [fn : {"reapply"}, row : ApplyRows, direct_map : ApplyMaps,
     extras_map : {<< >>, << <<"subject", "json_ext.note">> >>},
     ticket : ApplyTickets, with_labels : BOOLEAN]

HelperCalls ==
    ExtrasCalls \cup FindCalls \cup BuildCalls \cup ApplyCalls \cup PriorityCalls
    \cup StatusCalls \cup LogCalls \cup SignalCalls \cup ReapplyCalls

HelperInit ==
    /\ now = MaxTime
    /\ mappings \in MappingConfigs
    /\ tickets = << >>
    /\ SingleOff /\ BulkOff /\ ResolverOff /\ LocationOff
    /\ invoked \in HelperCalls
    /\ returned = [done |-> FALSE, value |-> << >>]

\* _apply_mapping's loop over the extras, on a record whose bag is empty.
Extras ==
    /\ invoked.fn = "extras" /\ ~returned.done
    /\ returned' =
          [done |-> TRUE,
           value |-> ApplyExtras([k \in {"name", "color"} |->
                                     IF k = invoked.kobo_key THEN invoked.raw_val ELSE None],
                                 << <<invoked.kobo_key, invoked.dotted>> >>, 1, << >>,
                                 invoked.with_labels)]
    /\ UNCHANGED <<now, locations, mappings, tickets, single, bulk, resolver, invoked>>

\* ticket = _find_existing_ticket(row, direct_map) (lines 581, 724)
Find ==
    /\ invoked.fn = "find" /\ ~returned.done
    /\ returned' =
          [done |-> TRUE,
           value |-> FindTicket(invoked.fields, invoked.row, invoked.direct_map, invoked.tks)]
    /\ UNCHANGED <<now, locations, mappings, tickets, single, bulk, resolver, invoked>>

\* direct_map, extras_map = _build_mapping(form) (lines 556, 716)
Build ==
    /\ invoked.fn = "build" /\ ~returned.done
    /\ returned' = [done |-> TRUE, value |-> _build_mapping(invoked.ms)]
    /\ UNCHANGED <<now, locations, mappings, tickets, single, bulk, resolver, invoked>>

\* json_ext, changed = _apply_mapping(row, direct_map, extras_map, ticket,
\* resolve_label=resolve_label) (lines 588, 730)
Apply ==
    /\ invoked.fn = "apply" /\ ~returned.done
    /\ returned' =
          [done |-> TRUE,
           value |-> ApplyMapping(invoked.row, invoked.direct_map, invoked.extras_map,
                                  invoked.ticket, invoked.with_labels)]
    /\ UNCHANGED <<now, locations, mappings, tickets, single, bulk, resolver, invoked>>

\* The priority rule applied to the record after the mapping.
Priority ==
    /\ invoked.fn = "priority" /\ ~returned.done
    /\ returned' = [done |-> TRUE,
                    value |-> PriorityRule(invoked.row_category, invoked.ticket)]
    /\ UNCHANGED <<now, locations, mappings, tickets, single, bulk, resolver, invoked>>

\* changed |= _maybe_set_resolved(ticket) (lines 599, 741)
Status ==
    /\ invoked.fn = "status" /\ ~returned.done
    /\ returned' = [done |-> TRUE, value |-> _maybe_set_resolved(invoked.ticket)]
    /\ UNCHANGED <<now, locations, mappings, tickets, single, bulk, resolver, invoked>>

\* _save_log(form, user, status, action) (lines 295-315): the entry saved
\* and the form it is attached to.
SaveLog ==
    /\ invoked.fn = "log" /\ ~returned.done
    /\ returned' = [done |-> TRUE,
                    value |-> [kobo_form |-> LogForm(invoked.form),
                               entry |-> _save_log(invoked.status, invoked.action, None)]]
    /\ UNCHANGED <<now, locations, mappings, tickets, single, bulk, resolver, invoked>>

\* except ValidationError as ve (lines 640-648): the counters and the log
\* entries the handler leaves.
Signal ==
    /\ invoked.fn = "signal" /\ ~returned.done
    /\ returned' =
          [done |-> TRUE,
           value |-> [counts |-> Bump(invoked.counts,
                                      OnValidationError(invoked.messages, invoked.row).outcome),
                      logs |-> OnValidationError(invoked.messages, invoked.row).logs]]
    /\ UNCHANGED <<now, locations, mappings, tickets, single, bulk, resolver, invoked>>

\* ticket.json_ext = json_ext (lines 610-613, 751-754): the bag
\* _apply_mapping returned, stored on the record it left.
Stored_Bag(applied) == [applied.ticket EXCEPT !.json_ext = applied.json_ext]

\* What _apply_mapping returns on the record a first application m left.
Again(m, row, direct_map, extras_map, with_labels) ==
    [first |-> m,
     second |-> ApplyMapping(row, direct_map, extras_map, Stored_Bag(m), with_labels)]

\* json_ext, changed = _apply_mapping(...), the bag stored on the record,
\* and _apply_mapping called again with the same row and mappings.
Reapply ==
    /\ invoked.fn = "reapply" /\ ~returned.done
    /\ returned' =
          [done |-> TRUE,
           value |-> Again(ApplyMapping(invoked.row, invoked.direct_map, invoked.extras_map,
                                        invoked.ticket, invoked.with_labels),
                           invoked.row, invoked.direct_map, invoked.extras_map,
                           invoked.with_labels)]
    /\ UNCHANGED <<now, locations, mappings, tickets, single, bulk, resolver, invoked>>

HelperNext ==
    \/ Extras
    \/ Find
    \/ Build
    \/ Apply
    \/ Priority
    \/ Status
    \/ SaveLog
    \/ Signal
    \/ Reapply

HelperSpec == HelperInit /\ [][HelperNext]_vars

\* ======================================================= the paged listing
\* Largest number of pages the remote lists, largest number of records on one.
MaxPages == 3
MaxPageLen == 2

\* The records of page i: record k of page i is <<i, k>>.
PageResults(i, n) == [k \in 1..n |-> <<i, k>>]

\* The listing of the remote: page i answers with its records and the link
\* to page i + 1 if there is one ("results", "next"), or, if it is the
\* failing one, with an HTTP error.
Listing(sizes, failing) ==
    [i \in 1..Len(sizes) |->
        [results |-> PageResults(i, sizes[i]),
         next |-> IF i < Len(sizes) THEN Some(i + 1) ELSE None,
         ok |-> i # failing]]

Listings ==
    { Listing(sizes, failing) :
        sizes \in UNION {[1..n -> 0..MaxPageLen] : n \in 1..MaxPages},
        failing \in 0..MaxPages }

IterCalls == [fn : {"iter_submissions"}, pages : Listings]

\* The generator iter_submissions returns (lines 188-189): url is the first
\* page, nothing is requested before the caller asks for a record.
NewGenerator(call) ==
    [pc |-> "request", url |-> Some(1), results |-> << >>, next |-> None,
     yielded |-> << >>, requested |-> << >>, call |-> call]

PagerInit ==
    /\ now = MaxTime
    /\ mappings \in MappingConfigs
    /\ tickets = << >>
    /\ SingleOff /\ BulkOff /\ ResolverOff /\ LocationOff
    /\ invoked \in IterCalls
    /\ returned = NewGenerator(1)

\* r = requests.get(url, ...); r.raise_for_status(); payload = r.json()
\* (lines 191-193): the error leaves the generator, to its caller.
Request ==
    /\ invoked.fn = "iter_submissions"
    /\ returned.pc = "request"
    /\ returned' =
          IF invoked.pages[returned.url[1]].ok
          THEN [returned EXCEPT !.pc = "yield",
                                !.results = invoked.pages[returned.url[1]].results,
                                !.next = invoked.pages[returned.url[1]].next,
                                !.requested = Append(@, returned.url[1])]
          ELSE [returned EXCEPT !.pc = "raised",
                                !.requested = Append(@, returned.url[1])]
    /\ UNCHANGED <<now, locations, mappings, tickets, single, bulk, resolver, invoked>>

\* for row in payload.get("results", []): yield row (lines 194-195)
Yield ==
    /\ invoked.fn = "iter_submissions"
    /\ returned.pc = "yield"
    /\ returned.results # << >>
    /\ returned' = [returned EXCEPT !.results = Tail(@),
                                    !.yielded = Append(@, Head(returned.results))]
    /\ UNCHANGED <<now, locations, mappings, tickets, single, bulk, resolver, invoked>>

\* Mutant of Advance: a page without records ends the iteration.
Advance_StopsOnEmptyPage ==
    /\ invoked.fn = "iter_submissions"
    /\ returned.pc = "yield"
    /\ returned.results = << >>
    /\ returned' =
          [returned EXCEPT
              !.url = returned.next,
              !.pc = IF returned.next = None
                        \/ invoked.pages[returned.requested[Len(returned.requested)]].results
                              = << >>
                     THEN "done" ELSE "request"]
    /\ UNCHANGED <<now, locations, mappings, tickets, single, bulk, resolver, invoked>>

\* url = payload.get("next"); while url: (lines 190, 196): the page is
\* consumed, the loop goes on with the link it carried or ends.
Advance ==
    /\ invoked.fn = "iter_submissions"
    /\ returned.pc = "yield"
    /\ returned.results = << >>
    /\ returned' = [returned EXCEPT !.url = returned.next,
                                    !.pc = IF returned.next = None THEN "done" ELSE "request"]
    /\ UNCHANGED <<now, locations, mappings, tickets, single, bulk, resolver, invoked>>

\* client.iter_submissions(uid) called again: another generator.
IterateAgain ==
    /\ invoked.fn = "iter_submissions"
    /\ returned.pc \in {"done", "raised"}
    /\ returned.call < MaxCalls
    /\ returned' = NewGenerator(returned.call + 1)
    /\ UNCHANGED <<now, locations, mappings, tickets, single, bulk, resolver, invoked>>

PagerNext ==
    \/ Request
    \/ Yield
    \/ Advance
    \/ IterateAgain

PagerSpec == PagerInit /\ [][PagerNext]_vars

\* ================================================================= claims
\* ---------------------------------------------------------------- helpers
\* sync_selected_forms of the admin (admin.py lines 41-47): a form counts as
\* a failure if start_sync raised, as a success otherwise.
AdminTally(raised) == IF raised THEN "failure" ELSE "success"

\* Nothing was invoked since the latest start_sync invocation ended: the
\* form, the tickets and the logs are as that invocation left them.
Settled == pc = "idle" /\ last.call = calls

\* The log entries written since invocation r started.
RunLogs(r) == SubSeq(logs, r.logs0 + 1, Len(logs))

RowsOf(seen) == [i \in 1..Len(seen) |-> seen[i].row]

SetMax(S) == CHOOSE x \in S : \A y \in S : y <= x

\* Timestamps of the submissions of a run that passed the watermark filter.
ProcessedTs(seen) ==
    {SubTs(seen[i].row)[1] :
        i \in {k \in 1..Len(seen) : seen[k].outcome # "filtered" /\ SubTs(seen[k].row) # None}}

Without(q, j) == SubSeq(q, 1, j - 1) \o SubSeq(q, j + 1, Len(q))

Count(seen, outcomes) == Cardinality({i \in 1..Len(seen) : seen[i].outcome \in outcomes})

\* The counters a sequence of submissions yields when start_sync processes
\* them in order from table tks.
RECURSIVE ReplayCounters(_, _, _, _)
ReplayCounters(rows, tks, since_, dry_run) ==
    IF rows = << >> THEN << >>
    ELSE LET r == RowStep(Head(rows), tks, since_, dry_run, _build_mapping(mappings).direct)
         IN <<CounterOf(r.outcome)>> \o ReplayCounters(Tail(rows), r.tickets, since_, dry_run)

\* The table a sequence of submissions leaves when start_sync processes them
\* in order from table tks.
RECURSIVE ReplayTickets(_, _, _, _)
ReplayTickets(rows, tks, since_, dry_run) ==
    IF rows = << >> THEN tks
    ELSE ReplayTickets(Tail(rows),
                       RowStep(Head(rows), tks, since_, dry_run,
                               _build_mapping(mappings).direct).tickets,
                       since_, dry_run)

\* The start_sync runs whose effects can be read off the state: the one in
\* progress, and the latest one while nothing was invoked after it.
IsLive(r) ==
    \/ pc = "collecting" /\ r = run
    \/ Settled /\ r = last /\ last.kind \in {"end", "error"}

LiveRuns == {r \in {run, last} : IsLive(r)}

\* ---------------------------------------------------------------------- C1
\* The latest two invocations were normal, complete, non-dry runs without
\* override over the same submissions at the same instant, the first without
\* a failed row.
C1_Rerun ==
    /\ Settled
    /\ last.kind = "end" /\ prev.kind = "end"
    /\ last.call = prev.call + 1
    /\ ~last.dry_run /\ ~prev.dry_run
    /\ last.since = None /\ prev.since = None
    /\ RowsOf(last.seen) = RowsOf(prev.seen)
    /\ last.ended = prev.ended
    /\ prev.counts.failed = 0

\* C1: idempotence of start_sync.  A second run over the same submissions
\* with no elapsed time creates nothing, updates nothing, counts every
\* submission as skipped and leaves the watermark of the first run.
C1_Idempotent ==
    C1_Rerun =>
        /\ last.counts.created = 0
        /\ last.counts.updated = 0
        /\ last.counts.skipped = Len(last.seen)
        /\ form.last_sync_date = last.wm0

\* ---------------------------------------------------------------------- C2
\* C2: watermark monotonicity.  After a run that completes normally the
\* form's last_sync_date is at or after the last_sync_date it had before.
C2_WatermarkMonotonic ==
    (Settled /\ last.kind = "end" /\ last.wm0 # None) =>
        /\ form.last_sync_date # None
        /\ form.last_sync_date[1] >= last.wm0[1]

\* A completed run with an override that processed a submission older than
\* the watermark it started from.
C2_Witness ==
    /\ Settled /\ last.kind = "end" /\ last.wm0 # None /\ last.since # None
    /\ \E ts \in ProcessedTs(last.seen) : ts < last.wm0[1]

C4_Filter(r) ==
    LET base == IF r.since # None THEN r.since ELSE r.wm0
        old(row) == /\ base # None
                    /\ SubTs(row)[1] <= base[1] - BACKOFF_MINUTES * TicksPerMinute
    IN /\ \A i \in 1..Len(r.seen) :
            /\ SubTs(r.seen[i].row) # None =>
                   (r.seen[i].outcome = "filtered" <=> old(r.seen[i].row))
            /\ r.seen[i].outcome = "filtered" => ~r.seen[i].wrote
            /\ (r.since = None /\ r.wm0 = None) => r.seen[i].outcome # "filtered"
       /\ r.counts.skipped >= Count(r.seen, {"filtered"})

\* C4: incremental filter.  A submission stamped at or before (override,
\* else watermark) minus one minute is counted as skipped and leaves the
\* records alone; a later one goes through the pipeline; without override
\* and watermark nothing is filtered.
C4_IncrementalFilter == \A r \in LiveRuns : C4_Filter(r)

\* A completed run from a watermark, without override, that filtered one
\* submission and processed another stamped inside the backoff margin.
C4_Witness ==
    /\ Settled /\ last.kind = "end" /\ last.since = None /\ last.wm0 # None
    /\ Count(last.seen, {"filtered"}) > 0
    /\ \E ts \in ProcessedTs(last.seen) : ts <= last.wm0[1]

\* ---------------------------------------------------------------------- C5
\* C5: create/update decision.  With a code mapping, runs of start_sync over
\* one submission leave at most one record carrying the submission's code.
C5_NoDuplicateCode ==
    (ret.kind = "none" /\ Len(remote) = 1 /\ remote[1].ref # None) =>
        Cardinality({i \in 1..Len(tickets) :
                        tickets[i].code = Some(Strip(remote[1].ref[1]))}) <= 1

\* ---------------------------------------------------------------------- C6
\* Failure isolation of run r when the rows whose upsert raised are those
\* with an outcome in raising: each is counted failed and logged once as
\* row_error with its payload, and the other rows fare as without it.
C6_Isolation(r, raising) ==
    LET bad == {i \in 1..Len(r.seen) : r.seen[i].outcome \in raising}
        IsRowError(e) == e.action = "row_error"
        errors == SelectSeq(RunLogs(r), IsRowError)
        IsBad(e) == e.outcome \in raising
        badRows == RowsOf(SelectSeq(r.seen, IsBad))
    IN /\ r.counts.failed = Cardinality(bad)
       /\ errors = [k \in 1..Len(badRows) |->
                       [status |-> "failed", action |-> "row_error",
                        details |-> Some(badRows[k])]]
       /\ \A j \in bad :
             Without([i \in 1..Len(r.seen) |-> CounterOf(r.seen[i].outcome)], j)
                 = ReplayCounters(Without(RowsOf(r.seen), j), r.tickets0, r.since_, r.dry_run)

\* C6 as stated: every exception raised by the upsert of a submission,
\* the "no changes" ValidationError included, counts as one failure.
C6_EveryExceptionFails == \A r \in LiveRuns : C6_Isolation(r, {"failed", "vacuous"})

\* C6 as amended: every exception raised by the upsert of a submission other
\* than the "no changes" ValidationError counts as one failure, is logged
\* once as row_error with the row, and leaves the outcomes of the other
\* submissions of the run as they are without it.
C6_FailureIsolation == \A r \in LiveRuns : C6_Isolation(r, {"failed"})

\* A completed run in which a submission failed after its record was
\* written and a later submission with the same code was created.
C6_Witness ==
    /\ Settled /\ last.kind = "end" /\ Len(last.seen) = 2
    /\ last.seen[1].outcome = "failed" /\ last.seen[1].row.fault = "error"
    /\ last.seen[2].outcome = "created"
    /\ last.seen[2].row.ref = last.seen[1].row.ref

\* ---------------------------------------------------------------------- C7
\* C7: dry run.  A dry start_sync or sync_one saves no record and writes no
\* created / updated / single log entry; a dry sync_one of a submission it
\* obtained returns the record carrying the mapped values.
C7_DryRun ==
    /\ \A r \in LiveRuns : r.dry_run =>
          /\ \A i \in 1..Len(r.seen) :
                ~r.seen[i].wrote /\ r.seen[i].outcome \in {"filtered", "simulated"}
          /\ r.counts.created = 0 /\ r.counts.updated = 0
          /\ \A k \in 1..Len(RunLogs(r)) :
                RunLogs(r)[k].action \notin {"created", "updated", "single"}
          /\ Len(tickets) = Len(r.tickets0)
    /\ (ret.dry_run /\ ret.kind # "none") =>
          /\ ~ret.wrote /\ ~ret.logged
          /\ ret.row # None =>
                /\ ret.kind = "ticket"
                /\ ret.row[1].ref # None =>
                      ret.ticket[1].code = Some(Strip(ret.row[1].ref[1]))
                /\ ret.ticket[1].title =
                      Some(Strip(IF ret.row[1].subject2 # None
                                 THEN ret.row[1].subject2[1] ELSE ret.row[1].subject[1]))

\* A dry start_sync that completed after building a record, followed by a
\* dry sync_one that returned a record it would have created.
C7_Witness ==
    /\ last.kind = "end" /\ last.dry_run /\ Count(last.seen, {"simulated"}) > 0
    /\ ret.dry_run /\ ret.kind = "ticket" /\ ret.ticket[1].pk = 0
    /\ tickets = << >>

\* ---------------------------------------------------------------------- C8
\* C8: collection failure.  A run ended by a failing page request wrote
\* exactly one log entry tagged error, of status failed, and no end entry,
\* and left the form's last_sync_date as it was.
C8_CollectionFailure ==
    (Settled /\ last.kind = "error") =>
        LET seg == RunLogs(last)
        IN /\ Cardinality({k \in 1..Len(seg) : seg[k].action = "error"}) = 1
           /\ seg[Len(seg)].action = "error" /\ seg[Len(seg)].status = "failed"
           /\ \A k \in 1..Len(seg) : seg[k].action # "end"
           /\ form.last_sync_date = last.wm0

\* A run that failed on a later page, after it had processed a stamped
\* submission newer than its watermark.
C8_Witness ==
    /\ Settled /\ last.kind = "error"
    /\ \E ts \in ProcessedTs(last.seen) : last.wm0 = None \/ ts > last.wm0[1]

\* ---------------------------------------------------------------------- C9
\* C9: partial progress.  Whether a run ends normally or by a collection
\* failure, the records are those its submissions wrote in order, a failed
\* submission contributing nothing and undoing nothing: every record the
\* run created is there.
C9_PartialProgress ==
    \A r \in LiveRuns :
        LET Kept(e) == e.outcome # "failed"
        IN /\ tickets = ReplayTickets(RowsOf(SelectSeq(r.seen, Kept)), r.tickets0,
                                      r.since_, r.dry_run)
           /\ Len(tickets) = Len(r.tickets0) + r.counts.created

\* A run ended by a collection failure after it had created a record.
C9_Witness ==
    /\ Settled /\ last.kind = "error" /\ last.counts.created > 0
    /\ Len(tickets) > Len(last.tickets0)

\* --------------------------------------------------------------------- C10
\* C10 as stated: a collection failure reaches the caller of start_sync as
\* a raised error, so that the admin action counts the form as failed.
C10_CollectionErrorRaised ==
    last.kind = "error" => (last.raised /\ AdminTally(last.raised) = "failure")

\* C10 as amended: a collection failure does not leave start_sync as an
\* error; start_sync logs "error" and returns, so that the caller sees the
\* failure in the log only and the admin action counts the form as succeeded.
C10_CollectionErrorLogged ==
    last.kind = "error" =>
        /\ ~last.raised
        /\ AdminTally(last.raised) = "success"
        /\ Settled => /\ logs # << >>
                      /\ logs[Len(logs)] = [status |-> "failed", action |-> "error",
                                            details |-> None]

\* A run whose first page request failed, nothing invoked since.
C10_Witness ==
    /\ Settled /\ last.kind = "error" /\ last.seen = << >>
    /\ RunLogs(last)[1].action = "start"

\* --------------------------------------------------------------------- C11
\* C11: configuration errors of start_sync.  With no credential, an empty
\* base URL or no remote UID, start_sync raises before any remote request
\* and before any log entry, "start" included, and leaves the watermark and
\* the records alone; no run is ever in progress on such a form.
C11_ConfigurationErrors ==
    form.config \in {"no_token", "no_url", "no_uid"} =>
        /\ pc = "idle"
        /\ \A k \in 1..Len(logs) : logs[k].action # "start"
        /\ last.kind # "none" =>
               /\ last.kind = "config" /\ last.raised
               /\ last.requests = 0
        /\ Settled =>
               /\ Len(logs) = last.logs0
               /\ tickets = last.tickets0
               /\ form.last_sync_date = last.wm0

\* start_sync raised on a form whose credential has an empty base URL while
\* the remote form holds a submission.
C11_Witness ==
    /\ Settled /\ last.kind = "config" /\ last.raised
    /\ form.config = "no_url" /\ remote # << >>

\* --------------------------------------------------------------------- C12
\* C12: configuration errors of sync_one.  With an empty base URL, no
\* credential or no remote UID, sync_one raises a configuration error before
\* any remote request is attempted.
C12_ConfigurationErrors ==
    (ret.kind # "none" /\ form.config # "ok") =>
        (ret.kind = "raised" /\ ret.requests = 0)

\* --------------------------------------------------------------------- C13
\* The runs of start_sync on a form that passes the configuration checks,
\* at one instant: respondents submit, start_sync is invoked, and a call in
\* progress goes on: a page request returns or fails (every request has a
\* timeout), the loop body and the end of the function are straight-line code.
FairInit == Init /\ form.config = "ok"

FairNext ==
    \/ \E row \in Submissions : Submit(row)
    \/ \E since \in Sinces, dry_run \in BOOLEAN : StartSync(since, dry_run)
    \/ FetchPage
    \/ FetchFails
    \/ ProcessRow
    \/ Finish

\* Weak fairness of the page request and of the end of the function; for
\* the loop body, whose only effect on its own guard is to shorten the page
\* in hand, weak fairness is stated on that guard: the page in hand is
\* consumed.
FairSpec ==
    /\ FairInit /\ [][FairNext]_vars
    /\ WF_vars(FetchPage \/ FetchFails)
    /\ WF_vars(Finish)
    /\ []<>(run.page = << >>)

\* The log entries of run r so far: one "start" first, then row_error
\* entries only while the run is in progress; once it is over exactly one
\* terminal entry, last: "end" with the counters, the watermark saved, after
\* a normal completion, "error" after a collection failure.
C13_Order(r) ==
    LET seg == RunLogs(r)
        n == Len(seg)
        over == r = last
        body == IF over THEN 2..(n - 1) ELSE 2..n
    IN /\ n >= 1 /\ seg[1].action = "start"
       /\ \A k \in body : seg[k].action = "row_error"
       /\ over =>
             /\ n >= 2
             /\ seg[n].action = (IF r.kind = "end" THEN "end" ELSE "error")
             /\ r.kind = "end" =>
                   /\ seg[n].details = Some(r.counts)
                   /\ form.last_sync_date # None

TableBefore(r, i) ==
    ReplayTickets(RowsOf(SubSeq(r.seen, 1, i - 1)), r.tickets0, r.since_, r.dry_run)

\* Nothing was invoked since the latest sync_one returned or raised.
ReturnSettled == pc = "idle" /\ ret.call = calls /\ ret.kind # "none"

C18_Unobtainable ==
    [][(ret'.call # ret.call /\ ret'.response \in {"404", "failure"}) =>
          /\ ret'.kind = "not_found" /\ ret'.ticket = None
          /\ tickets' = tickets /\ logs' = logs /\ form' = form]_vars

\* sync_one returned None after a failed request for a submission the remote
\* form holds, on a correctly configured form with records and log entries.
C18_Witness ==
    /\ ReturnSettled /\ ret.response = "failure" /\ ret.kind = "not_found"
    /\ form.config = "ok" /\ remote # << >> /\ tickets # << >> /\ logs # << >>

\* --------------------------------------------------------------------- C19
\* C19: errors of sync_one are absorbed.  Once sync_one has obtained the
\* submission, an exception raised by the save of its record does not reach
\* the caller of sync_one: the failure is recorded in the log instead.
C19_Absorbed ==
    (ReturnSettled /\ ret.row # None) => ret.kind # "raised"

\* --------------------------------------------------------------------- C15
\* The due-for-sync policy as it is stated.
Due(f, t) ==
    /\ f.auto_sync
    /\ \/ f.sync_interval = None
       \/ f.sync_interval[1] <= 0
       \/ f.last_sync_date = None
       \/ t >= f.last_sync_date[1] + f.sync_interval[1] * TicksPerMinute

\* C15: due-for-sync policy.  should_sync is false for a form whose
\* auto_sync is off; otherwise true if the interval is unset or not
\* positive; otherwise true if the form was never synchronised; otherwise
\* true exactly from the instant last_sync_date + interval minutes on.
C15_DuePolicy ==
    \A f \in DOMAIN forms :
        /\ should_sync(forms[f], now) = Due(forms[f], now)
        /\ \A t \in 0..now : should_sync(forms[f], t) = Due(forms[f], t)

\* sync_all_kobo_forms has called start_sync on a form synchronised exactly
\* one interval ago and has passed over one synchronised later.
C15_Witness ==
    /\ job.pc = "done"
    /\ \E f, g \in FormIds :
          /\ job.seen[f].sync_interval = Some(1)
          /\ job.seen[f].last_sync_date = Some(now - TicksPerMinute)
          /\ job.invoked[f] = 1
          /\ job.seen[g].sync_interval = Some(1)
          /\ job.seen[g].last_sync_date = Some(now - TicksPerMinute + 1)
          /\ job.invoked[g] = 0

\* --------------------------------------------------------------------- C16
\* C16: bulk scheduling.  sync_all_kobo_forms calls start_sync exactly once
\* on every form that is enabled and due and never on another; an exception
\* of one call, a configuration error included, does not keep it from the
\* later forms, and it never raises.
C16_BulkScheduling ==
    /\ job # << >> => ~job.raised
    /\ (job # << >> /\ job.pc # "idle") =>
          /\ job.pc = "done" => job.at \notin FormIds
          /\ \A f \in FormIds :
                LET visited == job.pc = "done" \/ f < job.at \/ job.waiting = f
                IN job.invoked[f] =
                       IF visited /\ job.seen[f].auto_sync /\ Due(job.seen[f], now)
                       THEN 1 ELSE 0

\* sync_all_kobo_forms has returned after the start_sync of the first form
\* raised a configuration error and that of the second form completed.
C16_Witness ==
    /\ job.pc = "done"
    /\ runs[1].pc = "config" /\ runs[1].by = "job" /\ job.invoked[1] = 1
    /\ runs[2].pc = "end" /\ runs[2].by = "job" /\ job.invoked[2] = 1

\* --------------------------------------------------------------------- C17
\* The loop of start_sync run without interruption over rows, from acc.
RECURSIVE SeqLoop(_, _, _)
SeqLoop(rows, since_, acc) ==
    IF rows = << >> THEN acc
    ELSE LET r == RowStep(Head(rows), acc.tickets, since_, FALSE,
                          _build_mapping(mappings).direct)
         IN SeqLoop(Tail(rows), since_,
                    [tickets |-> r.tickets,
                     counts |-> Bump(acc.counts, r.outcome),
                     max_submission_ts |-> MaxTs(acc.max_submission_ts, Head(rows), r.outcome),
                     logs |-> acc.logs \o r.logs])

\* start_sync on form f as it was initially, executed without interruption
\* from table tks and ended where the call on f ended: the table, the log
\* entries and the last_sync_date it leaves.
Alone(f, tks) ==
    LET wm0 == forms0[f].last_sync_date
        a == SeqLoop(SubSeq(remotes[f], 1, Len(runs[f].outcomes)),
                     EffectiveSince(None, wm0),
                     [tickets |-> tks, counts |-> ZeroCounts, max_submission_ts |-> wm0,
                      logs |-> << _save_log("success", "start", None) >>])
    IN IF runs[f].pc = "error"
       THEN [tickets |-> a.tickets, last_sync_date |-> wm0,
             logs |-> Append(a.logs, _save_log("failed", "error", None))]
       ELSE [tickets |-> a.tickets,
             last_sync_date |-> NewWatermark(a.max_submission_ts, now),
             logs |-> Append(a.logs, _save_log("success", "end", Some(a.counts)))]

\* start_sync was called once on each of the two forms, not by
\* sync_all_kobo_forms, and both calls are over.
BothRan == job.pc = "idle" /\ \A f \in FormIds : runs[f].pc \in {"end", "error"}

SameAs(f, alone) ==
    /\ forms[f].last_sync_date = alone.last_sync_date
    /\ flogs[f] = alone.logs

Actions(entries) == [k \in 1..Len(entries) |-> <<entries[k].status, entries[k].action>>]

\* C17 as stated: however the runs of start_sync on two forms interleave,
\* the last_sync_date and the log entries of each form are those of the two
\* runs executed one after the other.
C17_Serializable ==
    BothRan =>
        \/ \E a1 \in {Alone(1, << >>)} :
               \E a2 \in {Alone(2, a1.tickets)} : SameAs(1, a1) /\ SameAs(2, a2)
        \/ \E b2 \in {Alone(2, << >>)} :
               \E b1 \in {Alone(1, b2.tickets)} : SameAs(1, b1) /\ SameAs(2, b2)

\* C17 as amended: however the runs interleave, a form on which no run has
\* started keeps its watermark and has no log entry; a form whose run is
\* over has the last_sync_date of that run executed alone and log entries
\* of the same actions and statuses, the counters of its "end" entry adding
\* up to the number of its submissions; how they divide into created,
\* updated and skipped depends on the records the other run has written.
C17_Independent ==
    job.pc = "idle" =>
        \A f \in FormIds :
            /\ runs[f].pc \in {"idle", "config"} =>
                   (forms[f] = forms0[f] /\ flogs[f] = << >>)
            /\ runs[f].pc = "collecting" =>
                   (forms[f] = forms0[f]
                    /\ flogs[f] = << _save_log("success", "start", None) >>)
            /\ runs[f].pc \in {"end", "error"} =>
                   LET alone == Alone(f, << >>)
                       n == Len(flogs[f])
                   IN /\ forms[f].last_sync_date = alone.last_sync_date
                      /\ Actions(flogs[f]) = Actions(alone.logs)
                      /\ runs[f].pc = "end" =>
                            LET c == flogs[f][n].details[1]
                            IN c.created + c.updated + c.skipped + c.failed
                                   = Len(remotes[f])

\* Two runs over the same two records in opposite orders, interleaved so
\* that each created the record the other then found.
C17_Witness ==
    /\ BothRan
    /\ \A f \in FormIds :
          runs[f].pc = "end" /\ runs[f].outcomes = <<"created", "unchanged">>

\* --------------------------------------------------------------------- C20
\* The tokens of a raw string: its maximal runs of characters that are
\* neither a comma nor whitespace, from left to right.
IsToken(s, i, j) ==
    /\ i <= j
    /\ \A k \in i..j : s[k] \notin {",", " "}
    /\ i = 1 \/ s[i - 1] \in {",", " "}
    /\ j = Len(s) \/ s[j + 1] \in {",", " "}

TokenSpans(s) == {ij \in (1..Len(s)) \X (1..Len(s)) : IsToken(s, ij[1], ij[2])}

\* The expected result for select question values: label of the code if the
\* choice list has it, the code itself if not.
LabelOf(c) ==
    CASE c = <<"a">> -> <<"A", "l", "p", "h", "a">>
      [] c = <<"b">> -> <<"B", "e", "t", "a">>
      [] OTHER -> c

\* C20: multi-select label resolution.  For a question whose leaf name is a
\* select question, a raw list, or a raw string split on commas and
\* whitespace into non-empty tokens, resolves to a list of one element per
\* token in the same order: the label of the code, or the code itself when
\* the choice list does not have it.
C20_MultiSelect ==
    (resolved # << >> /\ resolved.done /\ asked.kind \in {"list", "str"}
        /\ asked.kobo_key[Len(asked.kobo_key)] = "color") =>
        LET out == resolved.value.v
            raw == asked.raw_val
        IN IF asked.kind = "list"
           THEN /\ resolved.value.kind = "list"
                /\ Len(out) = Len(raw)
                /\ \A k \in 1..Len(raw) : out[k] = LabelOf(raw[k])
           ELSE LET spans == TokenSpans(raw)
                IN /\ resolved.value.kind = "list"
                   /\ Len(out) = Cardinality(spans)
                   /\ \A ij \in spans :
                         LET k == Cardinality({x \in spans : x[1] <= ij[1]})
                         IN out[k] = LabelOf(SubSeq(raw, ij[1], ij[2]))

\* "a b" on the question grp/color resolved to [Alpha, Beta].
C20_Witness ==
    /\ resolved # << >> /\ resolved.done
    /\ asked.kobo_key = <<"grp", "color">> /\ asked.kind = "str"
    /\ asked.raw_val = <<"a", " ", "b">>
    /\ resolved.value.kind = "list"
    /\ resolved.value.v = << <<"A", "l", "p", "h", "a">>, <<"B", "e", "t", "a">> >>

\* --------------------------------------------------------------------- C21
\* A raw string that is a single code: not empty, no comma, no whitespace.
SingleCode(raw) == raw # << >> /\ \A k \in 1..Len(raw) : raw[k] \notin {",", " "}

\* C21: single-select label resolution.  For a question whose leaf name is
\* a select question and a raw value that is a single code given as a
\* string, the resolver returns the label itself (a text, not a list), or
\* the raw value unchanged when the choice list does not have the code; for
\* a question that is not a select question it returns the raw value
\* unchanged.
C21_SingleSelect ==
    (resolved # << >> /\ resolved.done) =>
        IF asked.kobo_key[Len(asked.kobo_key)] # "color"
        THEN resolved.value.kind = asked.kind /\ resolved.value.v = asked.raw_val
        ELSE (asked.kind = "str" /\ SingleCode(asked.raw_val)) =>
                 /\ resolved.value.kind = "str"
                 /\ resolved.value.v = LabelOf(asked.raw_val)

\* --------------------------------------------------------------------- C22
\* The value the extras loop stored under the path of the call's mapping.
StoredExtra ==
    LET path == ExtrasPath(invoked.dotted)
        bag == returned.value
    IN bag[CHOOSE i \in 1..Len(bag) : bag[i][1] = path][2]

\* C22: boolean coercion of extras.  An extras-mapped string value "Oui" is
\* stored in the attribute bag as boolean true and "Non" as boolean false;
\* any other string value is stored unchanged.
C22_BoolCoercion ==
    (invoked # << >> /\ invoked.fn = "extras" /\ returned.done
        /\ invoked.raw_val # None) =>
        LET raw == invoked.raw_val[1]
            out == StoredExtra
        IN IF raw = <<"O", "u", "i">> THEN out.kind = "bool" /\ out.v = TRUE
           ELSE IF raw = <<"N", "o", "n">> THEN out.kind = "bool" /\ out.v = FALSE
           ELSE out.kind = "str" /\ out.v = raw

\* --------------------------------------------------------------------- C23
FindDone == invoked # << >> /\ invoked.fn = "find" /\ returned.done

\* The positions of the direct mappings that target "code" and whose remote
\* field the row carries.
CodeMappings ==
    {i \in 1..Len(invoked.direct_map) :
        invoked.direct_map[i][2] = "code" /\ invoked.row[invoked.direct_map[i][1]] # None}

\* The lowest pk of the records whose field has the value, 0 if none.
LowestWith(field, value) ==
    LET hits == {k \in 1..Len(invoked.tks) : invoked.tks[k][field] = Some(value)}
    IN IF hits = {} THEN 0 ELSE CHOOSE k \in hits : \A j \in hits : k <= j

\* What the lookup by the Kobo identifiers gives: the UUID first, then the
\* instance ID, each only if the record type has the field and the row the
\* identifier; 0 if neither finds a record.
ByIdentifiers ==
    LET by_uuid == IF "kobo_uuid" \in invoked.fields /\ invoked.row["_uuid"] # None
                   THEN LowestWith("kobo_uuid", invoked.row["_uuid"][1]) ELSE 0
        by_inst == IF "instance_id" \in invoked.fields /\ invoked.row["meta/instanceID"] # None
                   THEN LowestWith("instance_id", invoked.row["meta/instanceID"][1]) ELSE 0
    IN IF by_uuid # 0 THEN by_uuid ELSE by_inst

Complete(ms) == {i \in 1..Len(ms) : ms[i].kobo_field # "" /\ ms[i].grievance_field # ""}

\* The pairs (source, target) of the mappings at the positions keep of ms,
\* in the order of ms.
RECURSIVE PairsOf(_, _, _)
PairsOf(ms, i, keep) ==
    IF i > Len(ms) THEN << >>
    ELSE (IF i \in keep THEN << <<ms[i].kobo_field, ms[i].grievance_field>> >> ELSE << >>)
         \o PairsOf(ms, i + 1, keep)

\* C24: mapping partition.  _build_mapping places every configured mapping
\* with non-empty source and target into exactly one bucket: the extras
\* list, in configuration order, if and only if its target starts with
\* "json_ext", otherwise the direct map; none is dropped, also when two
\* mappings share the same remote field path.
C24_Partition ==
    (invoked # << >> /\ invoked.fn = "build" /\ returned.done) =>
        LET ms == invoked.ms
            InExtras == {i \in Complete(ms) : StartsWithJsonExt(ms[i].grievance_field)}
            InDirect == Complete(ms) \ InExtras
            Pairs(m) == {m[k] : k \in 1..Len(m)}
        IN /\ returned.value.extras = PairsOf(ms, 1, InExtras)
           /\ Pairs(returned.value.direct) = Pairs(PairsOf(ms, 1, InDirect))

\* --------------------------------------------------------------------- C25
ApplyDone == invoked # << >> /\ invoked.fn = "apply" /\ returned.done

\* The positions of the direct mappings that are to be skipped: the row has
\* not the remote path, or the target is not a field of the record, or it is
\* a foreign key.
SkippedMappings ==
    {i \in 1..Len(invoked.direct_map) :
        \/ invoked.row[invoked.direct_map[i][1]] = None
        \/ invoked.direct_map[i][2] \notin DOMAIN invoked.ticket
        \/ invoked.direct_map[i][2] = "attending_staff"}

\* C25: relational targets are skipped.  _apply_mapping never assigns to a
\* direct-mapping target that is a foreign key of the record, or that is not
\* a field of the record, or whose remote path the row has not: the record
\* keeps its fields, a field that only such mappings target keeps its
\* value, and the changed flag is set only if another mapping applies or the
\* attribute bag changes.
C25_RelationalSkipped ==
    ApplyDone =>
        LET before == invoked.ticket
            after == returned.value.ticket
            applied == (1..Len(invoked.direct_map)) \ SkippedMappings
        IN /\ DOMAIN after = DOMAIN before
           /\ after.attending_staff = before.attending_staff
           /\ \A f \in DOMAIN before :
                 (\A i \in applied : invoked.direct_map[i][2] # f) => after[f] = before[f]
           /\ returned.value.changed =>
                 (applied # {} \/ returned.value.json_ext # before.json_ext)

\* A row with a reference, mapped onto the foreign key and onto a name that
\* is not a field: the stored record is as it was and the flag is not set.
C25_Witness ==
    /\ ApplyDone
    /\ invoked.direct_map = << <<"ref", "attending_staff">>, <<"subject", "bogus">> >>
    /\ invoked.row["ref"] = Some(<<"a">>) /\ invoked.row["subject"] = Some(<<"x">>)
    /\ invoked.ticket.pk = 1 /\ invoked.extras_map = << >>
    /\ returned.value.ticket = invoked.ticket
    /\ ~returned.value.changed

\* --------------------------------------------------------------------- C26
PriorityDone == invoked # << >> /\ invoked.fn = "priority" /\ returned.done

\* The letters of a text without case or accent.
Plain(s) ==
    LET Letter(c) ==
            CASE c \in {"e'", "E'", "E"} -> "e" [] c = "S" -> "s" [] c = "N" -> "n"
              [] c = "C" -> "c" [] c = "A" -> "a" [] OTHER -> c
    IN [k \in 1..Len(s) |-> Letter(s[k])]

\* s has t as a contiguous part.
HasPart(s, t) == \E i \in 0..(Len(s) - Len(t)) : \A k \in 1..Len(t) : s[i + k] = t[k]

\* The category value has a non-sensitive token / a sensitive token.
HasNonSensitive(s) ==
    \/ HasPart(Plain(s), <<"c", "a", "s", "_", "n", "o", "n", "_", "s", "e", "n", "s", "i", "b", "l", "e">>)
    \/ HasPart(Plain(s), <<"n", "o", "n", " ", "s", "e", "n", "s", "i", "b", "l", "e">>)

HasSensitive(s) == HasPart(Plain(s), <<"s", "e", "n", "s", "i", "b", "l", "e">>)

StatusDone == invoked # << >> /\ invoked.fn = "status" /\ returned.done

\* C27: auto-resolution.  A record with a non-empty resolution whose status
\* is neither closed nor resolved has its status set to resolved and is
\* flagged changed; a record that is closed or already resolved, or whose
\* resolution is empty, keeps its status and is not flagged.  Nothing else of
\* the record changes.
C27_AutoResolution ==
    StatusDone =>
        LET before == invoked.ticket
            after == returned.value.ticket
            nonempty == before.resolution \notin {None, Some(<< >>)}
        IN /\ IF nonempty /\ before.status \notin {"CLOSED", "RESOLVED"}
              THEN after.status = "RESOLVED" /\ returned.value.changed
              ELSE after.status = before.status /\ ~returned.value.changed
           /\ after.resolution = before.resolution /\ after.title = before.title

\* An open record with a resolution became resolved.
C27_Witness ==
    /\ StatusDone
    /\ invoked.ticket.status = "OPEN" /\ invoked.ticket.resolution = Some(<<"o", "k">>)
    /\ returned.value.ticket.status = "RESOLVED" /\ returned.value.changed

\* --------------------------------------------------------------------- C28
\* C28: a schema fetch failure degrades, never aborts.  On a form whose
\* schema cannot be fetched, start_sync and sync_one do not raise; every
\* stored title is the raw value of the select question of a submission, not
\* its label; a run logs "start" first and, once over, "end" with its
\* counters last; and its rows have their normal outcomes: created, updated
\* or unchanged, as many records gained as rows counted created, none in a
\* dry run.
C28_SchemaFailureDegrades ==
    form.schema = "fails" =>
        /\ ~last.raised /\ ret.kind \in {"none", "ticket"}
        /\ \A i \in 1..Len(tickets) :
              \E k \in 1..Len(remote) :
                 /\ tickets[i].code = remote[k].ref
                 /\ tickets[i].title = remote[k].color
        /\ ret.kind = "ticket" =>
              /\ ret.ticket[1].title = ret.row[1].color
              /\ ret.ticket[1].code = ret.row[1].ref
        /\ \A r \in LiveRuns :
              /\ RunLogs(r) # << >>
              /\ RunLogs(r)[1] = [status |-> "success", action |-> "start", details |-> None]
              /\ \A j \in 1..Len(r.seen) :
                    r.seen[j].outcome \in
                        (IF r.dry_run THEN {"simulated"} ELSE {"created", "updated", "unchanged"})
              /\ Len(tickets) - Len(r.tickets0) = Count(r.seen, {"created"})
        /\ (Settled /\ last.kind # "none") =>
              /\ last.kind = "end"
              /\ logs[Len(logs)] =
                    [status |-> "success", action |-> "end", details |-> Some(last.counts)]
              /\ last.counts.created = Count(last.seen, {"created"})
              /\ last.counts.updated = Count(last.seen, {"updated"})
              /\ last.counts.failed = 0

\* The schema could not be fetched; a run over one submission whose answer
\* "a" has the label Alpha ended, having created the record with title "a".
C28_Witness ==
    /\ form.schema = "fails"
    /\ Settled /\ last.kind = "end" /\ ~last.dry_run
    /\ last.counts.created = 1
    /\ Len(remote) = 1 /\ remote[1].color = Some(<<"a">>)
    /\ Len(tickets) = 1 /\ tickets[1].title = Some(<<"a">>)
    /\ Len(logs) = 2

\* --------------------------------------------------------------------- C29
LogDone == invoked # << >> /\ invoked.fn = "log" /\ returned.done

\* C29: log status invariant.  Whatever status string is passed to
\* _save_log, the entry written has status "success" or "failed": the status
\* passed if it is one of the two, "failed" for "error", "success" for any
\* other; the entry has the action passed and belongs to the form passed, the
\* form of the run that writes it.
C29_LogStatus ==
    LogDone =>
        LET e == returned.value.entry
        IN /\ e.status \in {"success", "failed"}
           /\ e.status = "failed" <=> invoked.status \in {"failed", "error"}
           /\ e.action = invoked.action
           /\ returned.value.kobo_form = invoked.form

\* An entry passed with the status "error" for the second form was written
\* with the status "failed" for that form.
C29_Witness ==
    /\ LogDone
    /\ invoked.status = "error" /\ invoked.form = 2
    /\ returned.value.entry.status = "failed" /\ returned.value.kobo_form = 2

\* --------------------------------------------------------------------- C30
\* C30: outcome accounting.  In a start_sync that is not a dry run and ended
\* normally, every submission iterated is counted in exactly one of created,
\* updated, skipped, failed: each counter is the number of submissions with
\* the corresponding outcomes, their sum is the number of submissions
\* iterated, and the "end" entry of the run, written after its "start" entry
\* and one "row_error" entry per failed submission, carries these counters.
C30_OutcomeAccounting ==
    (last.kind = "end" /\ ~last.dry_run) =>
        LET c == last.counts
            seen == last.seen
        IN /\ c.created = Count(seen, {"created"})
           /\ c.updated = Count(seen, {"updated"})
           /\ c.failed = Count(seen, {"failed"})
           /\ c.skipped = Count(seen, {"filtered", "unchanged", "vacuous"})
           /\ c.created + c.updated + c.skipped + c.failed = Len(seen)
           /\ logs[last.logs0 + c.failed + 2] =
                 [status |-> "success", action |-> "end", details |-> Some(c)]

\* A run over two submissions ended: one record was created, the other
\* submission was skipped.
C30_Witness ==
    /\ last.kind = "end" /\ ~last.dry_run
    /\ Len(last.seen) = 2
    /\ last.counts = [created |-> 1, updated |-> 0, skipped |-> 1, failed |-> 0]

\* --------------------------------------------------------------------- C31
SignalDone == invoked # << >> /\ invoked.fn = "signal" /\ returned.done

\* The letters of "no changes" without their case.
Caseless(s) ==
    LET Letter(c) ==
            CASE c = "N" -> "n" [] c = "O" -> "o" [] c = "C" -> "c" [] c = "H" -> "h"
              [] c = "A" -> "a" [] c = "G" -> "g" [] c = "E" -> "e" [] c = "S" -> "s"
              [] OTHER -> c
    IN [k \in 1..Len(s) |-> Letter(s[k])]

\* C31: the vacuous-update signal.  A ValidationError whose message (its
\* messages, separated by a space) has "no changes" in it, in any letter
\* case, increments skipped, leaves failed as it is and writes no log entry;
\* any other ValidationError increments failed, leaves skipped as it is and
\* writes exactly one entry, a failed "row_error" with the submission.
C31_VacuousSignal ==
    SignalDone =>
        LET before == invoked.counts
            after == returned.value.counts
            text == Caseless(JoinSpace(invoked.messages))
        IN /\ after.created = before.created /\ after.updated = before.updated
           /\ IF HasPart(text, <<"n", "o", " ", "c", "h", "a", "n", "g", "e", "s">>)
              THEN /\ after.skipped = before.skipped + 1
                   /\ after.failed = before.failed
                   /\ returned.value.logs = << >>
              ELSE /\ after.failed = before.failed + 1
                   /\ after.skipped = before.skipped
                   /\ returned.value.logs =
                         << [status |-> "failed", action |-> "row_error",
                             details |-> Some(invoked.row)] >>

\* The handler met "No changes", written with capitals, and skipped.
C31_Witness ==
    /\ SignalDone
    /\ invoked.messages = << <<"N", "o", " ", "c", "h", "a", "n", "g", "e", "s">> >>
    /\ returned.value.counts.skipped = invoked.counts.skipped + 1
    /\ returned.value.logs = << >>

\* --------------------------------------------------------------------- C32
\* The record of submission i of run r as the transaction left it in memory.
InMemory(r, i) ==
    Prepare(r.seen[i].row, _build_mapping(mappings).direct, TableBefore(r, i)).ticket

\* C32: every in-memory change is persisted.  In a start_sync that is not a
\* dry run, a submission that is not filtered and whose processing leaves an
\* existing record with a field, the location included, other than the stored
\* one is not skipped as unchanged; and the existing record a sync_one that is
\* not a dry run returns is the stored one.
C32_ChangesPersisted ==
    /\ \A r \in LiveRuns : \A i \in 1..Len(r.seen) :
          (/\ ~r.dry_run
           /\ r.seen[i].outcome # "filtered"
           /\ InMemory(r, i).pk # 0
           /\ InMemory(r, i) # TableBefore(r, i)[InMemory(r, i).pk])
          => r.seen[i].outcome # "unchanged"
    /\ (/\ ReturnSettled /\ ~ret.dry_run /\ ret.kind = "ticket"
        /\ ret.ticket # None /\ ret.ticket[1].pk # 0)
       => tickets[ret.ticket[1].pk] = ret.ticket[1]

\* --------------------------------------------------------------------- C33
\* C33: a dry start_sync that completes normally.  It saves the watermark a
\* run that is not dry saves (the greatest of the previous watermark and of
\* the timestamps of the submissions that passed the filter, the current
\* time if there is none), writes the "start" entry and the "end" entry and
\* nothing between them, and its "end" entry reports created = 0,
\* updated = 0 and failed = 0 and counts as skipped the filtered submissions
\* only: a submission that passed the filter is in no counter.
C33_DryRunBookkeeping ==
    (Settled /\ last.kind = "end" /\ last.dry_run) =>
        LET S == ProcessedTs(last.seen)
                 \cup (IF last.wm0 # None THEN {last.wm0[1]} ELSE {})
            filtered == Count(last.seen, {"filtered"})
            totals == [created |-> 0, updated |-> 0, skipped |-> filtered, failed |-> 0]
        IN /\ form.last_sync_date = IF S # {} THEN Some(SetMax(S)) ELSE Some(last.ended)
           /\ RunLogs(last) =
                 << [status |-> "success", action |-> "start", details |-> None],
                    [status |-> "success", action |-> "end", details |-> Some(totals)] >>
           /\ last.counts = totals
           /\ tickets = last.tickets0

\* A dry run moved the watermark forward over a submission that passed the
\* filter and that no counter reports.
C33_Witness ==
    /\ Settled /\ last.kind = "end" /\ last.dry_run
    /\ Count(last.seen, {"simulated"}) > 0
    /\ last.counts = ZeroCounts
    /\ form.last_sync_date # None
    /\ form.last_sync_date # last.wm0

\* --------------------------------------------------------------------- C34
\* C34: sync_one leaves the watermark alone.  No call of sync_one, whether it
\* raises, finds no submission, simulates, creates, updates or leaves the
\* record as it is, changes the form; so the bound a later start_sync
\* filters with, for any override, is the one it had before the call.
C34_WatermarkUntouched ==
    [][ret' # ret =>
          /\ form' = form
          /\ \A since \in Sinces :
                EffectiveSince(since, form'.last_sync_date)
                    = EffectiveSince(since, form.last_sync_date)]_vars

\* A sync_one that saved a record of a form whose watermark a run had set.
C34_Witness ==
    /\ ReturnSettled /\ ret.kind = "ticket" /\ ret.wrote /\ ~ret.dry_run
    /\ last.kind = "end" /\ last.call < ret.call
    /\ form.last_sync_date # None

\* --------------------------------------------------------------------- C35
\* The first of _submission_time, end, start that the submission has does
\* not parse to a timestamp, or it has none of them.
Unusable(row) ==
    /\ row.submission_time # None => ~row.submission_time[1].iso
    /\ (row.submission_time = None /\ row.end # None) => ~row.end[1].iso
    /\ (row.submission_time = None /\ row.end = None /\ row.start # None)
          => ~row.start[1].iso

ReapplyDone == invoked # << >> /\ invoked.fn = "reapply" /\ returned.done

\* The second application changed nothing: flag not set, same bag, same
\* fields as the record the first one left with its bag stored.
SecondIsIdle ==
    LET first == returned.value.first
        second == returned.value.second
    IN /\ ~second.changed
       /\ second.json_ext = first.json_ext
       /\ second.ticket = [first.ticket EXCEPT !.json_ext = first.json_ext]

\* The first application left a field of the record other than it was, or
\* returned a bag other than the record's.
FirstAltered ==
    LET first == returned.value.first
    IN \/ \E f \in {"code", "title", "attending_staff"} : first.ticket[f] # invoked.ticket[f]
       \/ first.json_ext # invoked.ticket.json_ext

\* C36: mapping is idempotent.  _apply_mapping applied again after
\* its bag was stored returns changed = false and an equal bag and leaves
\* every field as it is, and the flag of an application is true exactly
\* when it left a field or the bag other than it was.
C36_Idempotent ==
    ReapplyDone =>
        /\ SecondIsIdle
        /\ returned.value.first.changed <=> FirstAltered

\* --------------------------------------------------------------------- C37
\* The records of pages 1..n of the listing, page after page.
RECURSIVE RecordsUpTo(_)
RecordsUpTo(n) ==
    IF n = 0 THEN << >> ELSE RecordsUpTo(n - 1) \o invoked.pages[n].results

\* C37: pagination.  At every moment of a call of iter_submissions, the first
\* or a later one: the pages requested are pages 1, 2, ... in order, each
\* once; the records yielded, followed by those of the current page still to
\* yield, are the records of the pages obtained, in page order and in the
\* order of the page; a page is requested only when every record of the
\* pages before it is yielded; the iteration is over exactly when everything
\* of a page without next link is yielded; and an HTTP error reaches the
\* caller when the records of the pages before it are yielded, and only then.
C37_Pagination ==
    (invoked # << >> /\ invoked.fn = "iter_submissions") =>
        LET g == returned
            n == Len(g.requested)
            got == IF g.pc = "raised" THEN n - 1 ELSE n
        IN /\ g.requested = [k \in 1..n |-> k]
           /\ g.yielded \o g.results = RecordsUpTo(got)
           /\ g.pc = "request" =>
                 (g.results = << >> /\ g.url = Some(n + 1) /\ n + 1 <= Len(invoked.pages))
           /\ g.pc = "yield" => g.next = invoked.pages[n].next
           /\ g.pc = "done" <=>
                 (/\ n > 0 /\ invoked.pages[n].ok /\ invoked.pages[n].next = None
                  /\ g.yielded = RecordsUpTo(n) /\ g.url = None)
           /\ g.pc = "done" => n = Len(invoked.pages)
           /\ g.pc = "raised" <=>
                 (n > 0 /\ ~invoked.pages[n].ok /\ g.yielded = RecordsUpTo(n - 1))

\* A second call went through a page without records to the last page and
\* yielded everything.
C37_Witness ==
    /\ invoked # << >> /\ invoked.fn = "iter_submissions"
    /\ returned.call = 2 /\ returned.pc = "done"
    /\ Len(invoked.pages) = 3
    /\ invoked.pages[2].results = << >>
    /\ Len(returned.yielded) = 4

====
